---- MODULE Spec2Model ----
(***************************************************************************)
(* A model of rentfair's rental-data pipeline: the record processor and    *)
(* the recency selector (src/lib/cmhc.ts, src/lib/fetch-static-data.ts,    *)
(* api/cmhc-data/route.ts), the in-memory cache of fetchRentalData, and    *)
(* the lookup engine getAverage.                                           *)
(*                                                                         *)
(* JavaScript strings are TLA+ strings; the string methods the code uses   *)
(* (toLowerCase, includes, endsWith, split, trim, replace, match,          *)
(* parseInt, parseFloat) are operators that compute what the methods       *)
(* compute, character by character.                                        *)
(*                                                                         *)
(* A value that may be null or undefined is a sequence of length at most   *)
(* one: <<>> is null/undefined and <<v>> is the value v.                   *)
(***************************************************************************)
EXTENDS Integers, Sequences, FiniteSets, TLC

(***************************************************************************)
(* null / undefined                                                        *)
(***************************************************************************)
Null == <<>>

Some(v) == <<v>>

IsNull(o) == o = <<>>

ValueOf(o) == o[1]

(***************************************************************************)
(* String methods                                                          *)
(***************************************************************************)
LowerOf ==
    ("A" :> "a") @@ ("B" :> "b") @@ ("C" :> "c") @@ ("D" :> "d") @@
    ("E" :> "e") @@ ("F" :> "f") @@ ("G" :> "g") @@ ("H" :> "h") @@
    ("I" :> "i") @@ ("J" :> "j") @@ ("K" :> "k") @@ ("L" :> "l") @@
    ("M" :> "m") @@ ("N" :> "n") @@ ("O" :> "o") @@ ("P" :> "p") @@
    ("Q" :> "q") @@ ("R" :> "r") @@ ("S" :> "s") @@ ("T" :> "t") @@
    ("U" :> "u") @@ ("V" :> "v") @@ ("W" :> "w") @@ ("X" :> "x") @@
    ("Y" :> "y") @@ ("Z" :> "z")

DigitOf ==
    ("0" :> 0) @@ ("1" :> 1) @@ ("2" :> 2) @@ ("3" :> 3) @@ ("4" :> 4) @@
    ("5" :> 5) @@ ("6" :> 6) @@ ("7" :> 7) @@ ("8" :> 8) @@ ("9" :> 9)

CharAt(s, i) == SubSeq(s, i, i)

IsDigit(c) == c \in DOMAIN DigitOf

IsUpper(c) == c \in DOMAIN LowerOf

IsLower(c) == \E u \in DOMAIN LowerOf : LowerOf[u] = c

\* \w of a regular expression
IsWordChar(c) == IsDigit(c) \/ IsUpper(c) \/ IsLower(c) \/ c = "_"

\* \s of a regular expression, for the characters of the model's strings
IsSpace(c) == c = " "

RECURSIVE ToLowerCase(_)
ToLowerCase(s) ==
    IF s = "" THEN ""
    ELSE (IF IsUpper(Head(s)) THEN LowerOf[Head(s)] ELSE Head(s))
         \o ToLowerCase(Tail(s))

\* the least member of a non-empty set of numbers, 0 for the empty set
MinOrZero(S) == IF S = {} THEN 0 ELSE CHOOSE i \in S : \A j \in S : i <= j

\* s.indexOf(sub) + 1; 0 when sub does not occur
IndexOf(s, sub) ==
    MinOrZero({i \in 1..(Len(s) + 1 - Len(sub)) :
                  SubSeq(s, i, i + Len(sub) - 1) = sub})

Includes(s, sub) == IndexOf(s, sub) > 0

EndsWith(s, sub) ==
    /\ Len(sub) <= Len(s)
    /\ SubSeq(s, Len(s) - Len(sub) + 1, Len(s)) = sub

\* s.trim()
RECURSIVE TrimStart(_)
TrimStart(s) ==
    IF s # "" /\ IsSpace(Head(s)) THEN TrimStart(Tail(s)) ELSE s

RECURSIVE TrimEnd(_)
TrimEnd(s) ==
    IF s # "" /\ IsSpace(CharAt(s, Len(s)))
    THEN TrimEnd(SubSeq(s, 1, Len(s) - 1))
    ELSE s

Trim(s) == TrimEnd(TrimStart(s))

\* s up to the place before position i, all of s when i = 0
UpTo(s, i) == IF i = 0 THEN s ELSE SubSeq(s, 1, i - 1)

\* s.split(',')[0]
BeforeComma(s) == UpTo(s, IndexOf(s, ","))

\* s.replace(/[$,]/g, '')
RECURSIVE StripDollarComma(_)
StripDollarComma(s) ==
    IF s = "" THEN ""
    ELSE (IF Head(s) \in {"$", ","} THEN "" ELSE Head(s))
         \o StripDollarComma(Tail(s))

\* s.replace(/[^\d.]/g, '')
RECURSIVE KeepDigitsAndDots(_)
KeepDigitsAndDots(s) ==
    IF s = "" THEN ""
    ELSE (IF IsDigit(Head(s)) \/ Head(s) = "." THEN Head(s) ELSE "")
         \o KeepDigitsAndDots(Tail(s))

\* s with every occurrence of the character a replaced by b
RECURSIVE ReplaceChar(_, _, _)
ReplaceChar(s, a, b) ==
    IF s = "" THEN ""
    ELSE (IF Head(s) = a THEN b ELSE Head(s)) \o ReplaceChar(Tail(s), a, b)

\* s.replace(/\s+/g, b): every run of spaces becomes one b
RECURSIVE ReplaceSpaceRuns(_, _)
ReplaceSpaceRuns(s, b) ==
    IF s = "" THEN ""
    ELSE IF IsSpace(Head(s))
         THEN b \o ReplaceSpaceRuns(TrimStart(s), b)
         ELSE Head(s) \o ReplaceSpaceRuns(Tail(s), b)

\* the longest run of digits s starts with
RECURSIVE LeadingDigits(_)
LeadingDigits(s) ==
    IF s # "" /\ IsDigit(Head(s))
    THEN Head(s) \o LeadingDigits(Tail(s))
    ELSE ""

\* the number a non-empty string of digits denotes
RECURSIVE DigitsValue(_)
DigitsValue(d) ==
    IF d = "" THEN 0
    ELSE 10 * DigitsValue(SubSeq(d, 1, Len(d) - 1)) + DigitOf[CharAt(d, Len(d))]

\* s.match(/(\d+)/): the first run of digits, "" when s has no digit
RECURSIVE FirstDigitRun(_)
FirstDigitRun(s) ==
    IF s = "" THEN ""
    ELSE IF IsDigit(Head(s)) THEN LeadingDigits(s)
    ELSE FirstDigitRun(Tail(s))

AllDigits(s) == \A i \in 1..Len(s) : IsDigit(CharAt(s, i))

\* parseFloat(s), for strings whose numeric prefix is a non-negative integer
\* (no sign, fraction or exponent): Null stands for NaN
NumberOfDigits(d) == IF d = "" THEN Null ELSE Some(DigitsValue(d))

ParseFloat(s) == NumberOfDigits(LeadingDigits(TrimStart(s)))

(***************************************************************************)
(* Value normalizer and field identifier (src/lib/cmhc.ts)                 *)
(***************************************************************************)
\* normalizeBedrooms of the first revision
normalizeBedroomsV1(bedroom) ==
    LET lowerBedroom == ToLowerCase(bedroom)
        numMatch == FirstDigitRun(bedroom)
    IN  IF bedroom = "" THEN ""
        ELSE IF Includes(lowerBedroom, "bachelor") \/ Includes(lowerBedroom, "studio")
             THEN "0"
        ELSE IF Includes(lowerBedroom, "one") \/ Includes(lowerBedroom, "1 bedroom")
             THEN "1"
        ELSE IF Includes(lowerBedroom, "two") \/ Includes(lowerBedroom, "2 bedroom")
             THEN "2"
        ELSE IF \/ Includes(lowerBedroom, "three")
                \/ Includes(lowerBedroom, "3 bedroom")
                \/ Includes(lowerBedroom, "3+")
                \/ Includes(lowerBedroom, "three or more")
             THEN "3+"
        ELSE IF numMatch # "" THEN numMatch
        ELSE bedroom

\* normalizeBedrooms of the second revision
normalizeBedrooms(bedroom) ==
    LET lowerBedroom == ToLowerCase(bedroom)
        numMatch == FirstDigitRun(bedroom)
    IN  IF bedroom = "" THEN ""
        ELSE IF lowerBedroom = "bachelor units" THEN "0"
        ELSE IF lowerBedroom = "one bedroom units" THEN "1"
        ELSE IF lowerBedroom = "two bedroom units" THEN "2"
        ELSE IF lowerBedroom = "three bedroom units" THEN "3+"
        ELSE IF Includes(lowerBedroom, "bachelor") \/ Includes(lowerBedroom, "studio")
             THEN "0"
        ELSE IF Includes(lowerBedroom, "one") \/ Includes(lowerBedroom, "1 bedroom")
             THEN "1"
        ELSE IF Includes(lowerBedroom, "two") \/ Includes(lowerBedroom, "2 bedroom")
             THEN "2"
        ELSE IF \/ Includes(lowerBedroom, "three")
                \/ Includes(lowerBedroom, "3 bedroom")
                \/ Includes(lowerBedroom, "3+")
                \/ Includes(lowerBedroom, "three or more")
             THEN "3+"
        ELSE IF numMatch # ""
             THEN (IF DigitsValue(numMatch) >= 3 THEN "3+" ELSE numMatch)
        ELSE bedroom

\* the column-name tests of identifyFieldNames, one per role
KeyMatches(role, key) ==
    LET lowerKey == ToLowerCase(key)
    IN  CASE role = "GEO" ->
               \/ Includes(lowerKey, "geo")
               \/ Includes(lowerKey, "location")
               \/ Includes(lowerKey, "city")
               \/ Includes(lowerKey, "geography")
          [] role = "Bedrooms" ->
               \/ Includes(lowerKey, "bedroom")
               \/ Includes(lowerKey, "room")
               \/ Includes(lowerKey, "type of unit")
               \/ Includes(lowerKey, "unit type")
               \/ Includes(lowerKey, "apartment type")
               \/ Includes(lowerKey, "dwelling type")
          [] role = "VALUE" ->
               \/ Includes(lowerKey, "value")
               \/ Includes(lowerKey, "price")
               \/ Includes(lowerKey, "rent")
               \/ Includes(lowerKey, "amount")
               \/ Includes(lowerKey, "cost")
          [] role = "RefDate" ->
               \/ Includes(lowerKey, "ref")
               \/ Includes(lowerKey, "date")
               \/ Includes(lowerKey, "period")
               \/ Includes(lowerKey, "year")
               \/ Includes(lowerKey, "time")

\* the item of list at the least position in at, '' when at is empty
FirstAt(list, at) == IF at = {} THEN "" ELSE list[MinOrZero(at)]

\* the first column whose name passes the role's test, '' when none does
FirstKey(cols, role) ==
    FirstAt(cols, {i \in 1..Len(cols) : KeyMatches(role, cols[i])})

\* cols: the keys of the sample record, in order
identifyFieldNames(cols) ==
    [GEO      |-> FirstKey(cols, "GEO"),
     Bedrooms |-> FirstKey(cols, "Bedrooms"),
     VALUE    |-> FirstKey(cols, "VALUE"),
     RefDate  |-> FirstKey(cols, "RefDate")]

(***************************************************************************)
(* Raw rows.  Papa.parse with header: true gives every row the columns of  *)
(* the header, so a parsed CSV is [cols, rows]: the column names in order  *)
(* and, per row, the values in the same order.                             *)
(***************************************************************************)
HasColumn(cols, key) == \E i \in 1..Len(cols) : cols[i] = key

\* record[key]; undefined (and '') read as ''
Field(cols, row, key) ==
    IF HasColumn(cols, key)
    THEN row[CHOOSE i \in 1..Len(cols) : cols[i] = key]
    ELSE ""

\* the fallback of fetchRentalData for an undetected bedroom column
PotentialBedroomFields == <<"Type of unit", "Dwelling type", "Unit type">>

WithBedroomField(fieldMap, field) ==
    IF fieldMap.Bedrooms = "" /\ field # ""
    THEN [fieldMap EXCEPT !.Bedrooms = field]
    ELSE fieldMap

WithPotentialBedroomField(cols, sample, fieldMap) ==
    WithBedroomField(fieldMap,
        FirstAt(PotentialBedroomFields,
                {i \in 1..Len(PotentialBedroomFields) :
                    Field(cols, sample, PotentialBedroomFields[i]) # ""}))

HasGeoAndValue(cols, row, fieldMap) ==
    Field(cols, row, fieldMap.GEO) # "" /\ Field(cols, row, fieldMap.VALUE) # ""

\* the Ontario filter of the three pipelines
IsOntarioGeo(geo) ==
    /\ geo # ""
    /\ \/ EndsWith(geo, ", Ontario")
       \/ Includes(geo, "Ontario")
       \/ Includes(geo, "ON,")
       \/ Includes(geo, ", ON")

BedroomInfo(cols, row, fieldMap) ==
    LET Test(key, value) ==
            \/ Includes(ToLowerCase(key), "bedroom")
            \/ Includes(ToLowerCase(key), "unit")
            \/ Includes(ToLowerCase(value), "bedroom")
            \/ Includes(ToLowerCase(value), "bachelor")
    IN  IF fieldMap.Bedrooms # "" /\ Field(cols, row, fieldMap.Bedrooms) # ""
        THEN Field(cols, row, fieldMap.Bedrooms)
        ELSE FirstAt(row, {i \in 1..Len(cols) : Test(cols[i], row[i])})

\* fetchRentalData and fetchStaticData also take a value that contains "20"
RefDateInfo(cols, row, fieldMap) ==
    LET Test(key, value) ==
            \/ Includes(ToLowerCase(key), "date")
            \/ Includes(ToLowerCase(key), "period")
            \/ Includes(ToLowerCase(key), "year")
            \/ Includes(ToLowerCase(key), "ref")
            \/ Includes(ToLowerCase(value), "20")
    IN  IF fieldMap.RefDate # "" /\ Field(cols, row, fieldMap.RefDate) # ""
        THEN Field(cols, row, fieldMap.RefDate)
        ELSE FirstAt(row, {i \in 1..Len(cols) : Test(cols[i], row[i])})

\* processRentalData of the route scans the column names only
RouteRefDateInfo(cols, row, fieldMap) ==
    LET Test(key, value) ==
            \/ Includes(ToLowerCase(key), "date")
            \/ Includes(ToLowerCase(key), "period")
            \/ Includes(ToLowerCase(key), "year")
            \/ Includes(ToLowerCase(key), "ref")
    IN  IF fieldMap.RefDate # "" /\ Field(cols, row, fieldMap.RefDate) # ""
        THEN Field(cols, row, fieldMap.RefDate)
        ELSE FirstAt(row, {i \in 1..Len(cols) : Test(cols[i], row[i])})

(***************************************************************************)
(* Reference dates.  A parsed date is [year, month] (month 0..11), Null    *)
(* when the text has none of the three formats.                            *)
(***************************************************************************)
\* the parts of s between hyphens
RECURSIVE SplitHyphen(_)
SplitHyphen(s) ==
    IF ~Includes(s, "-") THEN <<s>>
    ELSE <<UpTo(s, IndexOf(s, "-"))>>
         \o SplitHyphen(SubSeq(s, IndexOf(s, "-") + 1, Len(s)))

\* /^\d{4}-\d{1,2}-\d{1,2}$/, on the parts between the hyphens
IsIsoParts(parts) ==
    /\ Len(parts) = 3
    /\ \A i \in 1..3 : AllDigits(parts[i])
    /\ Len(parts[1]) = 4
    /\ Len(parts[2]) \in 1..2
    /\ Len(parts[3]) \in 1..2

IsIsoDate(s) == IsIsoParts(SplitHyphen(s))

\* new Date("YYYY-MM-DD"), for dates whose year and month are the same in
\* every time zone
IsoDateOf(parts) ==
    [year |-> DigitsValue(parts[1]), month |-> DigitsValue(parts[2]) - 1]

\* /^\d{4}$/
IsYearOnly(s) == Len(s) = 4 /\ AllDigits(s)

\* /\b(20\d{2})\b/: the places where a whole word "20dd" starts
EmbeddedYearAt(s) ==
    {i \in 1..(Len(s) - 3) :
        /\ SubSeq(s, i, i + 1) = "20"
        /\ IsDigit(CharAt(s, i + 2)) /\ IsDigit(CharAt(s, i + 3))
        /\ (i = 1 \/ ~IsWordChar(CharAt(s, i - 1)))
        /\ (i + 3 = Len(s) \/ ~IsWordChar(CharAt(s, i + 4)))}

\* new Date(year, 0, 1) of the first embedded year, which starts at i
EmbeddedYearOf(s, i) ==
    IF i = 0 THEN Null
    ELSE Some([year |-> DigitsValue(SubSeq(s, i, i + 3)), month |-> 0])

\* the three formats, in the code's order
ParseRefDate(refDate) ==
    IF refDate = "" THEN Null
    ELSE IF IsIsoDate(refDate) THEN Some(IsoDateOf(SplitHyphen(refDate)))
    ELSE IF IsYearOnly(refDate)
    THEN Some([year |-> DigitsValue(refDate), month |-> 0])
    ELSE EmbeddedYearOf(refDate, MinOrZero(EmbeddedYearAt(refDate)))

YearOfDate(date) == IF IsNull(date) THEN Null ELSE Some(ValueOf(date).year)

YearOf(refDate) == YearOfDate(ParseRefDate(refDate))

\* months between the reference date and the current date
MonthsSince(date, currentDate) ==
    IF IsNull(date) THEN Null
    ELSE Some((currentDate.year - ValueOf(date).year) * 12
              + (currentDate.month - ValueOf(date).month))

DataAgeOf(refDate, currentDate) == MonthsSince(ParseRefDate(refDate), currentDate)

(***************************************************************************)
(* Record processor                                                        *)
(***************************************************************************)
\* { ...explicit fields, ...record }: a raw column with the name of an
\* explicit field replaces it, since the spread comes last
SpreadRecord(explicit, cols, row) ==
    [f \in DOMAIN explicit |->
        IF HasColumn(cols, f) THEN Field(cols, row, f) ELSE explicit[f]]

\* the record fetchRentalData builds from a row whose date text is refDate
RentalRecordWith(cols, row, fieldMap, currentDate, refDate) ==
    SpreadRecord(
        [GEO      |-> Field(cols, row, fieldMap.GEO),
         Bedrooms |-> normalizeBedrooms(BedroomInfo(cols, row, fieldMap)),
         VALUE    |-> Field(cols, row, fieldMap.VALUE),
         RefDate  |-> refDate,
         DataAge  |-> DataAgeOf(refDate, currentDate),
         Year     |-> YearOf(refDate)],
        cols, row)

RentalRecordOf(cols, row, fieldMap, currentDate) ==
    RentalRecordWith(cols, row, fieldMap, currentDate,
                     RefDateInfo(cols, row, fieldMap))

\* the record the first revision of fetchRentalData builds from a row
FirstRecordOf(cols, row, fieldMap) ==
    SpreadRecord(
        [GEO      |-> Field(cols, row, fieldMap.GEO),
         Bedrooms |-> normalizeBedroomsV1(BedroomInfo(cols, row, fieldMap)),
         VALUE    |-> Field(cols, row, fieldMap.VALUE)],
        cols, row)

\* the record fetchStaticData builds from a row (its structure type and
\* category, which no filter reads, are left out)
StaticRecordWith(cols, row, fieldMap, currentDate, refDate) ==
    [GEO      |-> Field(cols, row, fieldMap.GEO),
     Bedrooms |-> normalizeBedrooms(BedroomInfo(cols, row, fieldMap)),
     VALUE    |-> Field(cols, row, fieldMap.VALUE),
     RefDate  |-> refDate,
     DataAge  |-> DataAgeOf(refDate, currentDate),
     Year     |-> YearOf(refDate)]

StaticRecordOf(cols, row, fieldMap, currentDate) ==
    StaticRecordWith(cols, row, fieldMap, currentDate,
                     RefDateInfo(cols, row, fieldMap))

\* the record processRentalData of the cmhc-data route builds from a row;
\* its value is a number, Null standing for NaN
RouteRecordWith(cols, row, fieldMap, currentDate, refDate) ==
    [city         |-> Trim(BeforeComma(Field(cols, row, fieldMap.GEO))),
     fullLocation |-> Field(cols, row, fieldMap.GEO),
     beds         |-> normalizeBedrooms(BedroomInfo(cols, row, fieldMap)),
     value        |-> ParseFloat(KeepDigitsAndDots(Field(cols, row, fieldMap.VALUE))),
     refDate      |-> refDate,
     dataAge      |-> DataAgeOf(refDate, currentDate),
     year         |-> YearOf(refDate)]

RouteRecordOf(cols, row, fieldMap, currentDate) ==
    RouteRecordWith(cols, row, fieldMap, currentDate,
                    RouteRefDateInfo(cols, row, fieldMap))

\* .filter(record => record.Bedrooms && record.VALUE)
HasBedroomsAndValue_ValueOnly(record) == record.VALUE # ""

HasBedroomsAndValue(record) == record.Bedrooms # "" /\ record.VALUE # ""

\* .filter(record => record.beds && !isNaN(record.value))
HasBedsAndNumber(record) == record.beds # "" /\ ~IsNull(record.value)

\* the rows that pass the two input filters
OntarioRows(cols, rows, fieldMap) ==
    LET Keep(row) ==
            /\ HasGeoAndValue(cols, row, fieldMap)
            /\ IsOntarioGeo(Field(cols, row, fieldMap.GEO))
    IN  SelectSeq(rows, Keep)

\* .map(record => ...) of each pipeline, over the rows that were kept
MapRental(cols, kept, fieldMap, currentDate) ==
    [i \in 1..Len(kept) |-> RentalRecordOf(cols, kept[i], fieldMap, currentDate)]

MapFirst(cols, kept, fieldMap) ==
    [i \in 1..Len(kept) |-> FirstRecordOf(cols, kept[i], fieldMap)]

MapStatic(cols, kept, fieldMap, currentDate) ==
    [i \in 1..Len(kept) |-> StaticRecordOf(cols, kept[i], fieldMap, currentDate)]

MapRoute(cols, kept, fieldMap, currentDate) ==
    [i \in 1..Len(kept) |-> RouteRecordOf(cols, kept[i], fieldMap, currentDate)]

RentalProcessedWith(csv, currentDate, fieldMap) ==
    SelectSeq(MapRental(csv.cols, OntarioRows(csv.cols, csv.rows, fieldMap),
                        fieldMap, currentDate),
              HasBedroomsAndValue)

StaticProcessedWith(csv, currentDate, fieldMap) ==
    SelectSeq(MapStatic(csv.cols, OntarioRows(csv.cols, csv.rows, fieldMap),
                        fieldMap, currentDate),
              HasBedroomsAndValue)

RouteProcessedWith(csv, currentDate, fieldMap) ==
    SelectSeq(MapRoute(csv.cols, OntarioRows(csv.cols, csv.rows, fieldMap),
                       fieldMap, currentDate),
              HasBedsAndNumber)

\* processedData of fetchRentalData
RentalProcessed(csv, currentDate) ==
    RentalProcessedWith(csv, currentDate,
        WithPotentialBedroomField(csv.cols, csv.rows[1],
                                  identifyFieldNames(csv.cols)))

\* processedData of the first revision of fetchRentalData
FirstProcessedWith(csv, fieldMap) ==
    SelectSeq(MapFirst(csv.cols, OntarioRows(csv.cols, csv.rows, fieldMap), fieldMap),
              HasBedroomsAndValue)

FirstProcessed(csv) ==
    FirstProcessedWith(csv,
        WithPotentialBedroomField(csv.cols, csv.rows[1],
                                  identifyFieldNames(csv.cols)))

\* processedData of fetchStaticData
StaticProcessed(csv, currentDate) ==
    StaticProcessedWith(csv, currentDate, identifyFieldNames(csv.cols))

\* processedData of the route's processRentalData; a CSV without rows
\* returns before any record is built
RouteProcessed(csv, currentDate) ==
    IF Len(csv.rows) = 0 THEN <<>>
    ELSE RouteProcessedWith(csv, currentDate, identifyFieldNames(csv.cols))

(***************************************************************************)
(* Recency selector                                                        *)
(***************************************************************************)
SanityYear == 2008

MinRecentRecords == 10

\* the years of the records that have one; YearField is "Year" or "year"
YearsOf(records, YearField) ==
    {ValueOf(records[i][YearField]) :
        i \in {j \in 1..Len(records) : ~IsNull(records[j][YearField])}}

\* the greatest member of a set of numbers, 0 for the empty set
MaxOrZero(S) == IF S = {} THEN 0 ELSE CHOOSE y \in S : \A z \in S : z <= y

\* uniqueYears sorted descending, first item; 0 when there is no year
LatestYear(records, YearField) == MaxOrZero(YearsOf(records, YearField))

RecordsOfYear(records, YearField, year) ==
    SelectSeq(records, LAMBDA r : r[YearField] = Some(year))

\* recentRecords, given latestYear
RecentOfYear_From2008(records, YearField, latestYear) ==
    IF latestYear >= SanityYear
    THEN RecordsOfYear(records, YearField, latestYear)
    ELSE records

RecentOfYear(records, YearField, latestYear) ==
    IF latestYear > SanityYear
    THEN RecordsOfYear(records, YearField, latestYear)
    ELSE records

\* recentRecords
RecentRecords(records, YearField) ==
    RecentOfYear(records, YearField, LatestYear(records, YearField))

\* the set fetchRentalData caches and fetchStaticData writes
WithFullFallback_NoFallback(recent, processed) == recent

WithFullFallback(recent, processed) ==
    IF Len(recent) < MinRecentRecords /\ Len(processed) >= MinRecentRecords
    THEN processed
    ELSE recent

\* the locals of a pipeline when it ends
Selected(processed, recent, final) ==
    [processedData |-> processed, recentRecords |-> recent, finalData |-> final]

SelectWithFallback(processed, recent) ==
    Selected(processed, recent, WithFullFallback(recent, processed))

SelectRecent(processed, recent) == Selected(processed, recent, recent)

\* fetchRentalData and fetchStaticData, from processedData on
RecencyWithFallback(processed) ==
    SelectWithFallback(processed, RecentRecords(processed, "Year"))

\* processRentalData of the route, from processedData on
RecencyOfRoute(processed) ==
    SelectRecent(processed, RecentRecords(processed, "year"))

(***************************************************************************)
(* State                                                                   *)
(***************************************************************************)
VARIABLES
    csv,            \* the parsed CSV the source serves: [cols, rows]
    currentDate,    \* new Date(): [year, month]
    ran,            \* the pipeline that has run on csv, "none" before
    processedData,  \* the pipeline's processedData
    recentRecords,  \* the pipeline's recentRecords
    finalData,      \* the set the pipeline returns, caches or writes
    variant,        \* the revision of cmhc.ts that is loaded: "v1" or "v2"
    cachedData,     \* cmhc.ts: let cachedData; Null or Some(records)
    cachedAt,       \* the time cachedData was last assigned
    signal,         \* the timestamp in .cache-invalidated, 0 when absent
    now,            \* Date.now()
    call,           \* per caller, where its fetchRentalData call is
    last,           \* the fetchRentalData call that ended last
    query,          \* the arguments of the last getAverage call
    matched,        \* the records that call handed to processRecordsForAverage
    result,         \* what that call resolved to
    earlier,        \* what the getAverage call before the last one did
    cities,         \* what the last getAvailableCities call resolved to
    label,          \* a bedroom label as a row of the source carries it
    normalized,     \* what normalizeBedrooms made of label
    timestampFile,  \* the content of .last-check, Null when absent
    snapshot,       \* the metadata in cmhc-data.json, Null when there is none
    check,          \* per caller, where its checkForDataUpdates call is
    returned,       \* the checkForDataUpdates call that returned last
    lastFetch,      \* the last fetchStaticData run checkForDataUpdates started
    routeCachedData,       \* cmhc-data route: let cachedData; Null or Some(data)
    cacheTime,             \* cmhc-data route: let cacheTime
    isCheckingForUpdates,  \* cmhc-data route: let isCheckingForUpdates
    request,        \* per GET request of the cmhc-data route, where it is
    updateCheck,    \* per GET request, the checkForDataUpdates call it started
    detected        \* how many updates the route's callback has been told of

vars == <<csv, currentDate, ran, processedData, recentRecords, finalData,
          variant, cachedData, cachedAt, signal, now, call, last,
          query, matched, result, earlier, cities, label, normalized,
          timestampFile, snapshot, check, returned, lastFetch,
          routeCachedData, cacheTime, isCheckingForUpdates, request,
          updateCheck, detected>>

pipelineVars == <<ran, processedData, recentRecords, finalData>>

cacheVars == <<variant, cachedData, cachedAt, signal, now, call, last>>

lookupVars == <<query, matched, result, earlier, cities>>

normalizeVars == <<label, normalized>>

schedulerVars == <<timestampFile, snapshot, check, returned, lastFetch>>

otherVars == <<normalizeVars, schedulerVars>>

routeVars == <<routeCachedData, cacheTime, isCheckingForUpdates, request,
               updateCheck, detected>>

(***************************************************************************)
(* Inputs                                                                  *)
(***************************************************************************)
MaxRows == 1

MaxBlock == 10

\* the lists over S of length at most n
SeqsUpTo(S, n) == UNION {[1..k -> S] : k \in 0..n}

\* the rows whose i-th value is drawn from values[i]
RECURSIVE RowsOf(_)
RowsOf(values) ==
    IF values = <<>> THEN {<<>>}
    ELSE {<<v>> \o r : v \in Head(values), r \in RowsOf(Tail(values))}

\* n copies of row
Repeat(row, n) == [i \in 1..n |-> row]

\* Column layouts: the table's own; one whose geography is detected in a
\* "City" column that precedes a raw "GEO" column; one whose bedroom column
\* is found only by the per-row scan; one without a value column.
Layouts ==
    { [cols   |-> <<"REF_DATE", "GEO", "Type of unit", "VALUE">>,
       values |-> << {"2023", ""},
                     {"Toronto, Ontario", "Montreal, Quebec",
                      "Ottawa-Gatineau, Ontario part", ""},
                     {"Bachelor units", "penthouse", ""},
                     {"$1,500", "..", ""} >>],
      [cols   |-> <<"City", "GEO", "Bedrooms", "VALUE">>,
       values |-> << {"Toronto, Ontario", "Montreal, Quebec"},
                     {"Toronto, Ontario", "Montreal, Quebec"},
                     {"Two bedroom units", ""},
                     {"1700", ""} >>],
      [cols   |-> <<"REF_DATE", "GEO", "Unit", "VALUE">>,
       values |-> << {"Reference period: 2021", "n/a"},
                     {"Hamilton, ON", "Gatineau, Quebec"},
                     {"3 bedroom", "5", ""},
                     {"$2,000", "F"} >>],
      [cols   |-> <<"REF_DATE", "GEO", "Type of unit">>,
       values |-> << {"2023-06-15", ""},
                     {"Toronto, Ontario", ""},
                     {"Bachelor units", "studio"} >>] }

\* short CSVs: every list of at most MaxRows rows of a layout
SmallInputs ==
    UNION {{[cols |-> l.cols, rows |-> rows] :
               rows \in SeqsUpTo(RowsOf(l.values), MaxRows)} : l \in Layouts}

\* long CSVs of Ontario rows: a rows of a latest year, b rows of an older
\* year, c rows without a date and d rows without a unit type
BlockRow(refDate) == <<refDate, "Toronto, Ontario", "One bedroom units", "$1,500">>

NoUnitRow == <<"2023", "Toronto, Ontario", "", "$1,500">>

BlockInputs ==
    {[cols |-> <<"REF_DATE", "GEO", "Type of unit", "VALUE">>,
      rows |-> Repeat(BlockRow(latest), a) \o Repeat(BlockRow("2007"), b)
               \o Repeat(BlockRow(""), c) \o Repeat(NoUnitRow, d)] :
        latest \in {"2023", "2009", "2008"},
        a \in 0..MaxBlock, b \in 0..MaxBlock, c \in 0..1, d \in 0..1}

PipelineInputs == SmallInputs \cup BlockInputs

Today == [year |-> 2025, month |-> 4]

(***************************************************************************)
(* The three pipelines, run on a parsed CSV                                *)
(***************************************************************************)
\* before any fetchRentalData call has ended
NoCall == [path |-> "none", outcome |-> "none", status |-> "none", ret |-> <<>>]

PipelineIdle ==
    /\ ran = "none"
    /\ processedData = <<>>
    /\ recentRecords = <<>>
    /\ finalData = <<>>

CacheIdle ==
    /\ variant = "v2"
    /\ cachedData = Null
    /\ cachedAt = 0
    /\ signal = 0
    /\ now = 0
    /\ call = <<>>
    /\ last = NoCall

LookupIdle ==
    /\ query = Null
    /\ matched = <<>>
    /\ result = Null
    /\ earlier = Null
    /\ cities = Null

NormalizeIdle ==
    /\ label = ""
    /\ normalized = Null

SchedulerIdle ==
    /\ timestampFile = Null
    /\ snapshot = Null
    /\ check = <<>>
    /\ returned = Null
    /\ lastFetch = Null

RouteIdle ==
    /\ routeCachedData = Null
    /\ cacheTime = 0
    /\ isCheckingForUpdates = FALSE
    /\ request = <<>>
    /\ updateCheck = <<>>
    /\ detected = 0

InitPipeline ==
    /\ csv \in PipelineInputs
    /\ currentDate = Today
    /\ RouteIdle
    /\ PipelineIdle
    /\ CacheIdle
    /\ LookupIdle
    /\ NormalizeIdle
    /\ SchedulerIdle

\* the locals of a finished pipeline become the state
Finish(who, out) ==
    /\ processedData' = out.processedData
    /\ recentRecords' = out.recentRecords
    /\ finalData' = out.finalData
    /\ ran' = who
    /\ UNCHANGED <<csv, currentDate, routeVars, otherVars, cacheVars, lookupVars>>

\* fetchRentalData, from the parsed CSV to the set it caches; a CSV without
\* rows makes it throw before any record is built
RunFetchRentalData ==
    /\ ran = "none"
    /\ Len(csv.rows) > 0
    /\ Finish("fetchRentalData",
              RecencyWithFallback(RentalProcessed(csv, currentDate)))

\* fetchStaticData, from the parsed CSV to the set it writes
RunFetchStaticData ==
    /\ ran = "none"
    /\ Len(csv.rows) > 0
    /\ Finish("fetchStaticData",
              RecencyWithFallback(StaticProcessed(csv, currentDate)))

\* processRentalData of the cmhc-data route: it returns recentRecords
RunProcessRentalData ==
    /\ ran = "none"
    /\ Finish("processRentalData",
              RecencyOfRoute(RouteProcessed(csv, currentDate)))

NextPipeline ==
    \/ RunFetchRentalData
    \/ RunFetchStaticData
    \/ RunProcessRentalData

SpecPipeline == InitPipeline /\ [][NextPipeline]_vars

(***************************************************************************)
(* Properties of the pipelines                                             *)
(***************************************************************************)
\* the fields of an emitted record, under the names of the pipeline that ran
BedroomsOf(r) == IF ran = "processRentalData" THEN r.beds ELSE r.Bedrooms

HasValue(r) == IF ran = "processRentalData" THEN ~IsNull(r.value) ELSE r.VALUE # ""

GeographyOf(r) == IF ran = "processRentalData" THEN r.fullLocation ELSE r.GEO

YearField == IF ran = "processRentalData" THEN "year" ELSE "Year"

\* C4: whatever the rows and the detected columns, no record that
\* fetchRentalData, fetchStaticData or processRentalData emits has an empty
\* bedrooms field or an empty (for the route: non-numeric) value field.
C4_NoEmptyBedroomsOrValue ==
    \A i \in 1..Len(processedData) :
        BedroomsOf(processedData[i]) # "" /\ HasValue(processedData[i])

\* a pipeline ran on a CSV one row of which has no unit type: some records
\* were emitted and that row was not
C4_Witness ==
    /\ ran = "fetchRentalData"
    /\ \E i \in 1..Len(csv.rows) : csv.rows[i] = NoUnitRow
    /\ Len(processedData) > 0
    /\ Len(processedData) < Len(csv.rows)

\* C5: every record a pipeline emits has a geography that passes the
\* Ontario heuristic, so that "Montreal, Quebec" is never emitted.
C5_EmittedGeographyIsOntario ==
    \A i \in 1..Len(processedData) : IsOntarioGeo(GeographyOf(processedData[i]))

\* C6: with M the greatest year of the processed records that have one, the
\* candidate working set is the records of year M when M > 2008, and all the
\* processed records when M <= 2008 or no record has a year.
C6_RecencySelection ==
    ran # "none" =>
        LET years == {ValueOf(processedData[i][YearField]) :
                         i \in {j \in 1..Len(processedData) :
                                   ~IsNull(processedData[j][YearField])}}
            IsMax(m) == m \in years /\ \A y \in years : y <= m
        IN  IF \E m \in years : IsMax(m) /\ m > 2008
            THEN \E m \in years :
                    /\ IsMax(m)
                    /\ recentRecords =
                         SelectSeq(processedData,
                                   LAMBDA r : r[YearField] = Some(m))
            ELSE recentRecords = processedData

\* the latest year is after 2008 and records of older years or without a
\* year were left out of the candidate working set
C6_Witness ==
    /\ ran = "fetchStaticData"
    /\ Len(recentRecords) > 0
    /\ Len(recentRecords) < Len(processedData)
    /\ \E i \in 1..Len(processedData) : IsNull(processedData[i].Year)
    /\ \E i \in 1..Len(processedData) : processedData[i].Year = Some(2007)

\* C7: in fetchRentalData and fetchStaticData, when the candidate set has
\* fewer than 10 records and the processed set at least 10, the working set
\* is the processed set; otherwise it is the candidate set.  So 10 records
\* of the latest year are kept alone and 9 of at least 10 are not.
C7_SmallSampleSafeguard ==
    ran \in {"fetchRentalData", "fetchStaticData"} =>
        /\ (Len(recentRecords) < 10 /\ Len(processedData) >= 10
                => finalData = processedData)
        /\ (Len(recentRecords) >= 10 \/ Len(processedData) < 10
                => finalData = recentRecords)
        /\ (Len(recentRecords) = 10 => finalData = recentRecords)
        /\ (Len(recentRecords) = 9 /\ Len(processedData) >= 10
                => finalData = processedData)

\* nine records of the latest year among at least ten: the working set is
\* the whole processed set
C7_Witness ==
    /\ ran = "fetchRentalData"
    /\ Len(recentRecords) = 9
    /\ Len(processedData) >= 10
    /\ finalData = processedData
    /\ finalData # recentRecords

(***************************************************************************)
(* fetchRentalData and its module-level cache                              *)
(*                                                                         *)
(* A call checks cachedData, and on a miss awaits the network inside a try *)
(* block.  The awaits touch no shared state, so a call is a start step,    *)
(* then one step in which the network's outcome arrives and the rest of    *)
(* the body runs, then the caller taking the result.                       *)
(***************************************************************************)
NumCallers == 2

MaxTime == 2

Callers == 1..NumCallers

\* what the source can serve: a table with one Toronto row, a table with
\* two Ontario rows, a table without Ontario rows, and a CSV without rows
ServedCsvs ==
    << [cols |-> <<"REF_DATE", "GEO", "Type of unit", "VALUE">>,
        rows |-> << <<"2023", "Toronto, Ontario", "One bedroom units", "$1,500">> >>],
       [cols |-> <<"REF_DATE", "GEO", "Type of unit", "VALUE">>,
        rows |-> << <<"2024", "Ottawa-Gatineau, Ontario part", "Bachelor units", "$1,200">>,
                    <<"2024", "Hamilton, Ontario", "Two bedroom units", "$1,700">> >>],
       [cols |-> <<"REF_DATE", "GEO", "Type of unit", "VALUE">>,
        rows |-> << <<"2023", "Montreal, Quebec", "One bedroom units", "$1,100">> >>],
       [cols |-> <<"REF_DATE", "GEO", "Type of unit", "VALUE">>,
        rows |-> << >>] >>

\* how the awaited requests of one acquisition can end, besides serving a CSV
FailuresV2 == {"fetchRejected", "notOk", "jsonRejected", "noDataField"}

FailuresV1 == {"fetchRejected", "notOk", "jsonRejected", "invalidStatus",
               "zipFetchRejected", "zipNotOk", "zipUnreadable", "noCsvInZip"}

Served == {"csv1", "csv2", "csv3", "csv4"}

CsvOf(outcome) ==
    ServedCsvs[CASE outcome = "csv1" -> 1 [] outcome = "csv2" -> 2
                 [] outcome = "csv3" -> 3 [] outcome = "csv4" -> 4]

Outcomes(v) == (IF v = "v1" THEN FailuresV1 ELSE FailuresV2) \cup Served

Returned(list) == [thrown |-> FALSE, value |-> list]

Thrown == [thrown |-> TRUE, value |-> <<>>]

\* second revision: the try block from the parsed CSV on
BodyV2(served) ==
    IF Len(served.rows) = 0 THEN Thrown
    ELSE Returned(RecencyWithFallback(RentalProcessed(served, Today)).finalData)

\* first revision: it throws when no record is left
ThrowIfEmpty(processed) ==
    IF Len(processed) = 0 THEN Thrown ELSE Returned(processed)

BodyV1(served) ==
    IF Len(served.rows) = 0 THEN Thrown
    ELSE ThrowIfEmpty(FirstProcessed(served))

\* the try block of each revision on each CSV the source can serve
TryBlockOnCsv ==
    [v \in {"v1", "v2"}, o \in Served |->
        IF v = "v1" THEN BodyV1(CsvOf(o)) ELSE BodyV2(CsvOf(o))]

\* the try block, given how its requests ended
TryBlock(v, outcome) ==
    IF outcome \in Served THEN TryBlockOnCsv[v, outcome] ELSE Thrown

\* catch (error) { console.error(...); return []; }
OnError_Rethrow(outcome) ==
    [path |-> "failed", outcome |-> outcome, status |-> "rejected", ret |-> <<>>]

OnError(outcome) ==
    [path |-> "failed", outcome |-> outcome, status |-> "resolved", ret |-> <<>>]

\* if (cachedData) return cachedData;  -- an empty array is truthy
CacheHit_NonEmptyOnly(cached) == ~IsNull(cached) /\ ValueOf(cached) # <<>>

CacheHit(cached) == ~IsNull(cached)

Init ==
    /\ variant \in {"v1", "v2"}
    /\ cachedData = Null
    /\ cachedAt = 0
    /\ signal = 0
    /\ now = 1
    /\ call = [c \in Callers |-> "idle"]
    /\ last = NoCall
    /\ csv = ServedCsvs[4]
    /\ currentDate = Today
    /\ RouteIdle
    /\ PipelineIdle
    /\ LookupIdle
    /\ NormalizeIdle
    /\ SchedulerIdle

\* a caller calls fetchRentalData: the cache check, then on a miss the code
\* up to its first await
FetchRentalDataStart(c) ==
    /\ call[c] = "idle"
    /\ IF CacheHit(cachedData)
       THEN /\ call' = [call EXCEPT ![c] = "done"]
            /\ last' = [path |-> "hit", outcome |-> "none",
                        status |-> "resolved", ret |-> ValueOf(cachedData)]
       ELSE /\ call' = [call EXCEPT ![c] = "fetching"]
            /\ last' = last
    /\ UNCHANGED <<variant, cachedData, cachedAt, signal, now>>
    /\ UNCHANGED <<csv, currentDate, routeVars, otherVars, pipelineVars, lookupVars>>

\* the rest of the try block on a value it returned: cachedData = ...; return
Store(c, outcome, list) ==
    /\ cachedData' = Some(list)
    /\ cachedAt' = now
    /\ last' = [path |-> "stored", outcome |-> outcome,
                status |-> "resolved", ret |-> list]

Fail_Clears(c, outcome) ==
    /\ last' = OnError(outcome)
    /\ cachedData' = Null
    /\ cachedAt' = 0

\* the catch block
Fail(c, outcome) ==
    /\ last' = OnError(outcome)
    /\ UNCHANGED <<cachedData, cachedAt>>

Settle(c, outcome, tried) ==
    /\ IF tried.thrown THEN Fail(c, outcome) ELSE Store(c, outcome, tried.value)
    /\ call' = [call EXCEPT ![c] = "done"]
    /\ UNCHANGED <<variant, signal, now>>
    /\ UNCHANGED <<csv, currentDate, routeVars, otherVars, pipelineVars, lookupVars>>

\* the requests of a call in flight end and the call runs to its end
FetchRentalDataSettle(c) ==
    /\ call[c] = "fetching"
    /\ \E outcome \in Outcomes(variant) :
          Settle(c, outcome, TryBlock(variant, outcome))

\* the caller has the result and may call again
FetchRentalDataReturn(c) ==
    /\ call[c] = "done"
    /\ call' = [call EXCEPT ![c] = "idle"]
    /\ UNCHANGED <<variant, cachedData, cachedAt, signal, now, last>>
    /\ UNCHANGED <<csv, currentDate, routeVars, otherVars, pipelineVars, lookupVars>>

\* clearCachedData of the refresh scheduler writes Date.now() to the marker
\* (writing the time it already holds changes nothing)
ClearCachedData ==
    /\ signal # now
    /\ signal' = now
    /\ UNCHANGED <<variant, cachedData, cachedAt, now, call, last>>
    /\ UNCHANGED <<csv, currentDate, routeVars, otherVars, pipelineVars, lookupVars>>

\* time passes
Tick ==
    /\ now < MaxTime
    /\ now' = now + 1
    /\ UNCHANGED <<variant, cachedData, cachedAt, signal, call, last>>
    /\ UNCHANGED <<csv, currentDate, routeVars, otherVars, pipelineVars, lookupVars>>

Next ==
    \/ \E c \in Callers : FetchRentalDataStart(c)
    \/ \E c \in Callers : FetchRentalDataSettle(c)
    \/ \E c \in Callers : FetchRentalDataReturn(c)
    \/ ClearCachedData
    \/ Tick

Spec == Init /\ [][Next]_vars

(***************************************************************************)
(* Properties of fetchRentalData                                           *)
(***************************************************************************)
\* caller c's call ends in this step, its requests having ended as last'.outcome
Settles(c) == call[c] = "fetching" /\ call'[c] = "done"

\* caller c calls fetchRentalData in this step
Starts(c) == call[c] = "idle" /\ call'[c] # "idle"

\* C1: however an acquisition fails -- a rejected fetch, a non-OK response,
\* a body that is not JSON, a response without a data field or with an
\* invalid WDS status, a failed or unreadable zip download, an archive
\* without a CSV, a CSV without rows, and in the first revision a CSV without
\* Ontario records -- the call resolves to an empty list, never rejects,
\* and leaves cachedData as it was.
C1_FailureResolvesToEmptyList ==
    [][\A c \in Callers :
          Settles(c)
          /\ \/ last'.outcome \in FailuresV1 \cup FailuresV2 \cup {"csv4"}
             \/ variant = "v1" /\ last'.outcome = "csv3"
          => /\ last'.status = "resolved"
             /\ last'.ret = <<>>
             /\ cachedData' = cachedData]_vars

\* a call whose request got a non-OK response has resolved to the empty list
\* while cachedData holds the records another call stored in the meantime
C1_Witness ==
    /\ last.outcome = "notOk"
    /\ last.status = "resolved"
    /\ last.ret = <<>>
    /\ ~IsNull(cachedData)
    /\ Len(ValueOf(cachedData)) > 0

\* C2: once the marker that clearCachedData writes is later than the time
\* cachedData was assigned, the next fetchRentalData call performs a new
\* acquisition instead of returning the cached list.
C2_InvalidationForcesAcquisition ==
    [][\A c \in Callers :
          Starts(c) /\ ~IsNull(cachedData) /\ signal > cachedAt
          => call'[c] = "fetching"]_vars

\* C3: a call made while cachedData holds a list returns that list at once:
\* it resolves without any request and leaves cachedData as it is.
C3_CachedListReturnedAtOnce ==
    [][\A c \in Callers :
          Starts(c) /\ ~IsNull(cachedData)
          => /\ call'[c] = "done"
             /\ last'.path = "hit"
             /\ last'.status = "resolved"
             /\ last'.ret = ValueOf(cachedData)
             /\ cachedData' = cachedData]_vars

\* a call has returned the stored records from the cache
C3_Witness ==
    /\ last.path = "hit"
    /\ Len(last.ret) > 0
    /\ cachedData = Some(last.ret)
    /\ \E c \in Callers : call[c] = "done"

(***************************************************************************)
(* getAverage (src/lib/cmhc.ts, second revision)                           *)
(***************************************************************************)
\* the places where the word w (in lower case) occurs in s as /\bw\b/i
WordAt(s, w) ==
    {i \in 1..(Len(s) + 1 - Len(w)) :
        /\ ToLowerCase(SubSeq(s, i, i + Len(w) - 1)) = w
        /\ (i = 1 \/ ~IsWordChar(CharAt(s, i - 1)))
        /\ (i + Len(w) > Len(s) \/ ~IsWordChar(CharAt(s, i + Len(w))))}

\* s with the n characters from position i on replaced by by
ReplaceAt(s, i, n, by) == SubSeq(s, 1, i - 1) \o by \o SubSeq(s, i + n, Len(s))

\* city.match(/\bst\b|\bst\./i): where "st" is followed by a point the first
\* alternative already matches, so the match is always the word "st" alone
HasSt(city) == WordAt(city, "st") # {}

\* city.replace(/\bst\b|\bst\./i, 'Saint'): the first match only
StToSaint(city) == ReplaceAt(city, MinOrZero(WordAt(city, "st")), 2, "Saint")

HasSaint(city) == WordAt(city, "saint") # {}

\* city.replace(/\bsaint\b/i, 'St.')
SaintToSt(city) == ReplaceAt(city, MinOrZero(WordAt(city, "saint")), 5, "St.")

SaintVariations(city) ==
    IF HasSt(city) THEN <<StToSaint(city)>>
    ELSE IF HasSaint(city) THEN <<SaintToSt(city)>>
    ELSE <<>>

HyphenVariations(city) ==
    IF Includes(city, "-") THEN <<ReplaceChar(city, "-", " ")>>
    ELSE IF Includes(city, " ") THEN <<ReplaceSpaceRuns(city, "-")>>
    ELSE <<>>

SpecialVariations(city) ==
    IF ToLowerCase(city) = "ottawa-gatineau"
    THEN <<"Ottawa", "Gatineau", "Ottawa-Gatineau, Ontario part">>
    ELSE <<>>

\* cityVariations, in the order the code pushes them
cityVariations(city) ==
    SaintVariations(city) \o HyphenVariations(city) \o SpecialVariations(city)

TorontoAreas == <<"Toronto", "Toronto CMA", "Greater Toronto">>

metroAreaMappings ==
    [k \in {"Toronto", "Mississauga", "Brampton", "Vaughan", "Markham",
            "Richmond Hill", "Oakville", "Burlington", "Ottawa", "Gatineau"} |->
        CASE k = "Burlington" -> <<"Hamilton", "Hamilton CMA">>
          [] k = "Ottawa" -> <<"Ottawa-Gatineau", "Ottawa-Gatineau, Ontario part">>
          [] k = "Gatineau" -> <<"Ottawa-Gatineau", "Ottawa-Gatineau, Quebec part">>
          [] OTHER -> TorontoAreas]

\* metroAreaMappings is an object literal: for these names the lookup finds
\* an inherited function whose length is not 0, and iterating it throws
InheritedFunctions ==
    {"constructor", "hasOwnProperty", "isPrototypeOf", "propertyIsEnumerable",
     "__defineGetter__", "__defineSetter__", "__lookupGetter__", "__lookupSetter__"}

\* metroAreaMappings[city] || []
MetroAreasOf(city) ==
    IF city \in DOMAIN metroAreaMappings THEN metroAreaMappings[city] ELSE <<>>

\* Approach 1: the geography up to its first comma is the city, whatever the case
ExactMatches_BedsOnly(data, city, beds) ==
    SelectSeq(data, LAMBDA item : item.Bedrooms = beds)

ExactMatches(data, city, beds) ==
    SelectSeq(data, LAMBDA item :
        /\ ToLowerCase(Trim(BeforeComma(item.GEO))) = ToLowerCase(city)
        /\ item.Bedrooms = beds)

\* Approach 2, and the filter of approaches 3 and 4: the geography contains
\* the name, whatever the case
PartialMatches(data, name, beds) ==
    SelectSeq(data, LAMBDA item :
        /\ Includes(ToLowerCase(item.GEO), ToLowerCase(name))
        /\ item.Bedrooms = beds)

\* for (const variation of ...) { ...; if (matches.length > 0) break; }
RECURSIVE FirstMatching(_, _, _)
FirstMatching(data, names, beds) ==
    IF names = <<>> THEN <<>>
    ELSE IF Len(PartialMatches(data, Head(names), beds)) > 0
    THEN PartialMatches(data, Head(names), beds)
    ELSE FirstMatching(data, Tail(names), beds)

OrElse_Both(found, otherwise) == found \o otherwise

OrElse(found, otherwise) == IF Len(found) > 0 THEN found ELSE otherwise

\* records after approaches 1 to 3
FirstThree(data, city, beds) ==
    OrElse(ExactMatches(data, city, beds),
           OrElse(PartialMatches(data, city, beds),
                  FirstMatching(data, cityVariations(city), beds)))

\* parseInt(s) || 0, for strings without a sign
ParseIntOrZero(s) == DigitsValue(LeadingDigits(TrimStart(s)))

bedroomValue == ("0" :> 0) @@ ("1" :> 1) @@ ("2" :> 2) @@ ("3+" :> 3) @@ ("" :> 0)

BedValueOf(bedroom) ==
    IF bedroom \in DOMAIN bedroomValue THEN bedroomValue[bedroom]
    ELSE ParseIntOrZero(bedroom)

Abs(n) == IF n < 0 THEN 0 - n ELSE n

\* a property name that objects list first, in numeric order
IsArrayIndex(k) == k # "" /\ AllDigits(k) /\ (Len(k) = 1 \/ Head(k) # "0")

\* Object.keys(bedroomGroups) as positions in the records: the first record
\* of each bedroom type, array indices first and ascending, then the other
\* types in the order they were inserted
FirstOfType(records) ==
    {i \in 1..Len(records) :
        \A j \in 1..(i - 1) : records[j].Bedrooms # records[i].Bedrooms}

KeyBefore(records, i, j) ==
    IF IsArrayIndex(records[i].Bedrooms)
    THEN \/ ~IsArrayIndex(records[j].Bedrooms)
         \/ DigitsValue(records[i].Bedrooms) < DigitsValue(records[j].Bedrooms)
    ELSE ~IsArrayIndex(records[j].Bedrooms) /\ i < j

ClosestAt_FirstRecord(records, target, keys) ==
    CHOOSE i \in keys : \A j \in keys : i <= j

\* closestBedroom, as the position of its first record: the first key, in
\* key order, whose difference from the target is least
ClosestAt(records, target, keys) ==
    CHOOSE i \in keys :
        \A j \in keys \ {i} :
            \/ Abs(BedValueOf(records[i].Bedrooms) - target)
                  < Abs(BedValueOf(records[j].Bedrooms) - target)
            \/ /\ Abs(BedValueOf(records[i].Bedrooms) - target)
                     = Abs(BedValueOf(records[j].Bedrooms) - target)
               /\ KeyBefore(records, i, j)

\* bedroomGroups[closestBedroom]
ClosestGroup(records, beds) ==
    SelectSeq(records, LAMBDA r :
        r.Bedrooms = records[ClosestAt(records, BedValueOf(beds),
                                       FirstOfType(records))].Bedrooms)

\* cityOnlyMatches
CityOnlyMatches(data, city) ==
    SelectSeq(data, LAMBDA item : Includes(ToLowerCase(item.GEO), ToLowerCase(city)))

\* a number as the sum of count values: sum / count
Quotient(sum, count) == [sum |-> sum, count |-> count]

RECURSIVE SumOf(_)
SumOf(numbers) == IF numbers = <<>> THEN 0 ELSE Head(numbers) + SumOf(Tail(numbers))

\* parseFloat(val.replace(/[$,]/g, '')) of each record, Null for NaN
ParsedValues(records) ==
    [i \in 1..Len(records) |-> ParseFloat(StripDollarComma(records[i].VALUE))]

Numbers(options) == [i \in 1..Len(options) |-> ValueOf(options[i])]

\* .filter(num => !isNaN(num))
NotNaN_NaNAsZero(parsed) ==
    [i \in 1..Len(parsed) |-> IF IsNull(parsed[i]) THEN 0 ELSE ValueOf(parsed[i])]

NotNaN(parsed) == Numbers(SelectSeq(parsed, LAMBDA v : ~IsNull(v)))

\* records.filter(r => r.DataAge !== undefined).map(r => r.DataAge)
AgesOf(records) ==
    Numbers(SelectSeq([i \in 1..Len(records) |-> records[i].DataAge],
                      LAMBDA a : ~IsNull(a)))

\* Math.round(sum / count) of ages, which are not negative
RoundedMean(ages) ==
    IF ages = <<>> THEN Null
    ELSE Some((2 * SumOf(ages) + Len(ages)) \div (2 * Len(ages)))

Resolved(value, dataAge) ==
    [status |-> "resolved", value |-> value, dataAge |-> dataAge]

\* { value: null }
NoValue == Resolved(Null, Null)

\* the branch for several records, given their valid values
AverageOfValid(records, validValues) ==
    IF Len(validValues) = 0 THEN NoValue
    ELSE Resolved(Some(Quotient(SumOf(validValues), Len(validValues))),
                  RoundedMean(AgesOf(records)))

\* the branch for one record, given its parsed value
SingleValue(record, value) ==
    Resolved(IF IsNull(value) THEN Null ELSE Some(Quotient(ValueOf(value), 1)),
             record.DataAge)

processRecordsForAverage(records) ==
    IF Len(records) > 1
    THEN AverageOfValid(records, NotNaN(ParsedValues(records)))
    ELSE SingleValue(records[1], ParsedValues(records)[1])

\* what a getAverage call did: the records it handed to
\* processRecordsForAverage, none if it did not call it, and its result
Averaged(records) ==
    [matched |-> records, result |-> processRecordsForAverage(records)]

WithoutRecords == [matched |-> <<>>, result |-> NoValue]

\* Last resort: the city without the bedroom type
LastResortOf(cityOnlyMatches, beds) ==
    IF Len(cityOnlyMatches) > 0
    THEN Averaged(ClosestGroup(cityOnlyMatches, beds))
    ELSE WithoutRecords

\* from the metropolitan-area matches on
AfterMetro(data, city, beds, records) ==
    IF Len(records) > 0 THEN Averaged(records)
    ELSE LastResortOf(CityOnlyMatches(data, city), beds)

\* from the records of approaches 1 to 3 on; the throw of the metropolitan
\* lookup is caught by getAverage's catch block, which returns { value: null }
AfterFirstThree(data, city, beds, records) ==
    IF Len(records) > 0 THEN Averaged(records)
    ELSE IF city \in InheritedFunctions THEN WithoutRecords
    ELSE AfterMetro(data, city, beds,
                    FirstMatching(data, MetroAreasOf(city), beds))

\* getAverage(city, beds) on the list fetchRentalData resolved to
getAverage(data, city, beds) ==
    IF Len(data) = 0 THEN WithoutRecords
    ELSE AfterFirstThree(data, city, beds, FirstThree(data, city, beds))

(***************************************************************************)
(* Lookups against a populated cache                                       *)
(***************************************************************************)
MaxRecs == 2

\* a cached record, with the fields getAverage reads and the category column
\* that the spread of the raw row carries along
Cached(geo, bedrooms, value, dataAge, category) ==
    [GEO |-> geo, Bedrooms |-> bedrooms, VALUE |-> value,
     DataAge |-> dataAge, Category |-> category]

\* records the pipeline can emit: Ontario geographies, normalized bedroom
\* types, values that are not empty
CachedRecords ==
    { Cached("Toronto, Ontario", "1", "$1,500", Some(16), "Highrise"),
      Cached("Toronto, Ontario", "1", "$1,700", Some(27), "Townhouse"),
      Cached("Toronto, Ontario", "1", "..", Null, "Highrise"),
      Cached("Toronto, Ontario", "2", "2000", Some(16), "Highrise"),
      Cached("Hamilton, Ontario", "1", "$1,400", Some(4), "Highrise"),
      Cached("Ottawa-Gatineau, Ontario part", "0", "$900", Some(16), "Highrise"),
      Cached("St. Catharines-Niagara, Ontario", "3+", "F", Some(16), "Townhouse") }

\* records of one city in several bedroom groups, two of them without a
\* numeric value
GroupRecords ==
    { Cached("Hamilton, Ontario", "2", "$1,400", Some(16), "Highrise"),
      Cached("Hamilton, Ontario", "3+", "$1,900", Some(4), "Townhouse"),
      Cached("Hamilton, Ontario", "0", "F", Some(4), "Highrise"),
      Cached("Hamilton, Ontario", "0", "..", Some(17), "Highrise") }

\* a geography that is the city and one that only contains it
OrderRecords ==
    { Cached("Toronto, Ontario", "1", "$1,500", Some(16), "Highrise"),
      Cached("Greater Toronto Area, Ontario", "1", "$1,900", Some(4),
             "Townhouse") }

TorontoRecords == {r \in CachedRecords : Includes(r.GEO, "Toronto")}

\* the lists fetchRentalData can hold in the cache: records of Toronto, of
\* the other cities, of one city in several bedroom types, and of a city and
\* an area named after it
CachedLists ==
    SeqsUpTo(TorontoRecords, MaxRecs)
        \cup SeqsUpTo(CachedRecords \ TorontoRecords, MaxRecs)
        \cup SeqsUpTo(GroupRecords, MaxRecs)
        \cup SeqsUpTo(OrderRecords, MaxRecs)

QueryCities ==
    {"Toronto", "toronto", "Mississauga", "Burlington", "Ottawa", "Hamilton",
     "Saint Catharines", "Kenora", "constructor"}

QueryBeds == {"0", "1", "2", "3+"}

QueryCategories == {"", "Highrise"}

InitLookup ==
    /\ cachedData \in {Some(data) : data \in CachedLists}
    /\ variant = "v2"
    /\ cachedAt = 1
    /\ signal = 0
    /\ now = 1
    /\ call = <<>>
    /\ last = NoCall
    /\ csv = ServedCsvs[4]
    /\ currentDate = Today
    /\ RouteIdle
    /\ PipelineIdle
    /\ LookupIdle
    /\ NormalizeIdle
    /\ SchedulerIdle

DataAfterRead_Shifted(data) == IF data = <<>> THEN data ELSE Tail(data)

\* the cached list after getAverage or getAvailableCities has gone through
\* it: filter, map and forEach build new arrays and assign to no record, and
\* cachedData is assigned in fetchRentalData alone
DataAfterRead(data) == data

\* the call ends: what it did becomes the state
Answer(asked, out) ==
    /\ query' = Some(asked)
    /\ matched' = out.matched
    /\ result' = Some(out.result)
    /\ cachedData' = Some(DataAfterRead(ValueOf(cachedData)))
    /\ UNCHANGED <<csv, currentDate, routeVars, otherVars, pipelineVars, variant, cachedAt, signal,
                   now, call, last, earlier, cities>>

\* the records of the category a call names as its third argument, and all
\* records when it names none
WithinCategory(data, args) ==
    LET OfCategory(item) == item.Category = args[3]
    IN  IF Len(args) < 3 \/ args[3] = "" THEN data
        ELSE SelectSeq(data, OfCategory)

getAverageCall_WithinCategory(data, args) ==
    getAverage(WithinCategory(data, args), args[1], args[2])

\* a call getAverage(...args): the function declares the parameters
\* (city, beds), which take the first two arguments; further arguments are
\* bound to nothing
getAverageCall(data, args) == getAverage(data, args[1], args[2])

\* getAverage as the compare route calls it, getAverage(city, beds, category);
\* its fetchRentalData call returns the cached list
GetAverage(city, beds, category) ==
    /\ IsNull(query)
    /\ CacheHit(cachedData)
    /\ Answer([city |-> city, beds |-> beds, category |-> category],
              getAverageCall(ValueOf(cachedData), <<city, beds, category>>))

NextLookup ==
    \E city \in QueryCities, beds \in QueryBeds, category \in QueryCategories :
        GetAverage(city, beds, category)

SpecLookup == InitLookup /\ [][NextLookup]_vars

(***************************************************************************)
(* normalizeBedrooms on the labels of a source                             *)
(***************************************************************************)
LabelStarts == {"", "Suite ", "Stone "}

LabelCores ==
    {"", "0", "1", "2", "3", "4", "00", "01", "02", "12", "3+", "Bachelor",
     "studio", "One bedroom", "Two bedroom", "Three bedroom", "1 Bedroom",
     "2 bedroom", "3 bedroom", "Three or more", "Penthouse"}

LabelEnds == {"", " units", " Beds"}

Labels ==
    {start \o core \o end :
        start \in LabelStarts, core \in LabelCores, end \in LabelEnds}

InitNormalize ==
    /\ label \in Labels
    /\ normalized = Null
    /\ variant = "v2"
    /\ cachedData = Null
    /\ cachedAt = 0
    /\ signal = 0
    /\ now = 1
    /\ call = <<>>
    /\ last = NoCall
    /\ csv = ServedCsvs[4]
    /\ currentDate = Today
    /\ RouteIdle
    /\ PipelineIdle
    /\ LookupIdle
    /\ SchedulerIdle

\* Bedrooms: normalizeBedrooms(bedroomInfo) of a record
NormalizeBedrooms ==
    /\ IsNull(normalized)
    /\ normalized' = Some(normalizeBedrooms(label))
    /\ UNCHANGED <<csv, currentDate, routeVars, schedulerVars, pipelineVars, cacheVars,
                   lookupVars, label>>

NextNormalize == NormalizeBedrooms

SpecNormalize == InitNormalize /\ [][NextNormalize]_vars

(***************************************************************************)
(* The refresh scheduler                                                   *)
(***************************************************************************)
\* CONFIG.CHECK_INTERVAL, in milliseconds
CHECK_INTERVAL == 24 * 60 * 60 * 1000

MaxAdvances == 2

NumCheckers == 1

\* the checkForDataUpdates calls that can be under way at once
Checkers == 1..NumCheckers

\* the text Date.now().toString() wrote, and a text parseInt makes NaN of
Garbled == [isNumber |-> FALSE, value |-> 0]

Stamp_Garbled(time) == Garbled

Stamp(time) == [isNumber |-> TRUE, value |-> time]

\* needsRefresh() with the content of the timestamp file and Date.now()
needsRefresh_Always(file, time) == TRUE

needsRefresh(file, time) ==
    IF ~IsNull(file)
       /\ ValueOf(file).isNumber
       /\ time - ValueOf(file).value < CHECK_INTERVAL
    THEN FALSE
    ELSE TRUE

\* the metadata fetchStaticData writes, without generatedAt and
\* uniqueCategories
Metadata(recordCount, dataYear, uniqueBedroomTypes, uniqueCities, structures) ==
    [recordCount |-> recordCount, dataYear |-> dataYear,
     uniqueBedroomTypes |-> uniqueBedroomTypes, uniqueCities |-> uniqueCities,
     uniqueStructureTypes |-> structures]

\* what a run of fetchStaticData can find at the source; the last is the
\* metadata of a table all of whose rows are filtered out
Metadatas ==
    { Metadata(12, Some(2024), <<"0", "1">>, 3, <<"Apartment">>),
      Metadata(13, Some(2024), <<"0", "1">>, 3, <<"Apartment">>),
      Metadata(12, Some(2025), <<"0", "1">>, 3, <<"Apartment">>),
      Metadata(12, Some(2024), <<"1", "0">>, 3, <<"Apartment">>),
      Metadata(12, Some(2024), <<"0", "1">>, 4, <<"Row">>),
      Metadata(0, Null, <<>>, 0, <<>>) }

\* JSON.stringify of a list of bedroom types
RECURSIVE Joined(_)
Joined(list) ==
    IF list = <<>> THEN ""
    ELSE IF Len(list) = 1 THEN "\"" \o Head(list) \o "\""
    ELSE "\"" \o Head(list) \o "\"," \o Joined(Tail(list))

Stringify(list) == "[" \o Joined(list) \o "]"

isDataUpdated_CountOnly(oldMeta, newMeta) ==
    IsNull(oldMeta) \/ ValueOf(oldMeta).recordCount # newMeta.recordCount

\* isDataUpdated(oldMeta, newMeta); oldMeta is Null for {}
isDataUpdated(oldMeta, newMeta) ==
    IF IsNull(oldMeta) THEN TRUE
    ELSE IF ValueOf(oldMeta).recordCount # newMeta.recordCount THEN TRUE
    ELSE IF ValueOf(oldMeta).dataYear # newMeta.dataYear THEN TRUE
    ELSE IF Stringify(ValueOf(oldMeta).uniqueBedroomTypes)
               # Stringify(newMeta.uniqueBedroomTypes) THEN TRUE
    ELSE IF ValueOf(oldMeta).uniqueCities # newMeta.uniqueCities THEN TRUE
    ELSE FALSE

Waiting == [pc |-> "idle", currentMetadata |-> Null]

Fetching(currentMetadata) == [pc |-> "fetching", currentMetadata |-> currentMetadata]

\* the Advance steps that led to a time
Advances(time) ==
    ((time - 1) \div (CHECK_INTERVAL - 1)) + ((time - 1) % (CHECK_INTERVAL - 1))

InitScheduler ==
    /\ timestampFile \in {Null, Some(Garbled), Some(Stamp(1))}
    /\ snapshot \in {Null, Some(Metadata(12, Some(2024), <<"0", "1">>, 3,
                                         <<"Apartment">>))}
    /\ check = [c \in Checkers |-> Waiting]
    /\ returned = Null
    /\ lastFetch = Null
    /\ signal = 0
    /\ now = 1
    /\ variant = "v2"
    /\ cachedData = Null
    /\ cachedAt = 0
    /\ call = <<>>
    /\ last = NoCall
    /\ csv = ServedCsvs[4]
    /\ currentDate = Today
    /\ RouteIdle
    /\ PipelineIdle
    /\ LookupIdle
    /\ NormalizeIdle

\* return value; acquired tells how far the call went
Return(value, acquired) ==
    returned' = Some([value |-> value, acquired |-> acquired])

\* checkForDataUpdates() up to its await: needsRefresh, updateTimestamp,
\* whose write can fail and is then only logged, getCurrentMetadata, and the
\* call of fetchStaticData
CheckForDataUpdates(c) ==
    /\ check[c].pc = "idle"
    /\ IF ~needsRefresh(timestampFile, now)
       THEN /\ Return(FALSE, "skipped")
            /\ UNCHANGED <<timestampFile, check, lastFetch>>
       ELSE \E written \in BOOLEAN :
              /\ timestampFile' = IF written THEN Some(Stamp(now))
                                  ELSE timestampFile
              /\ check' = [check EXCEPT ![c] = Fetching(snapshot)]
              /\ lastFetch' = Some([at |-> now, stamped |-> written])
              /\ UNCHANGED returned
    /\ UNCHANGED <<snapshot, signal, now>>
    /\ UNCHANGED <<csv, currentDate, routeVars, normalizeVars, pipelineVars, lookupVars,
                   variant, cachedData, cachedAt, call, last>>

\* how a run of fetchStaticData can fail: a request aborted by its timeout,
\* a response that is not ok, a WDS answer without SUCCESS, an archive
\* without a CSV, a CSV without rows
StaticFailures == {"aborted", "notOk", "invalidStatus", "noCsvInZip", "noRows"}

FileAfterFailure_Emptied(failure, file) ==
    IF failure = "noRows" THEN Some(Metadata(0, Null, <<>>, 0, <<>>)) ELSE file

\* cmhc-data.json after a failed run: each failure is thrown before
\* writeFileSync is reached
FileAfterFailure(failure, file) == file

\* fetchStaticData fails: the catch block returns { success: false, error },
\* and checkForDataUpdates returns false
FetchStaticDataFails(c, failure) ==
    /\ check[c].pc = "fetching"
    /\ snapshot' = FileAfterFailure(failure, snapshot)
    /\ check' = [check EXCEPT ![c] = Waiting]
    /\ Return(FALSE, "failed")
    /\ UNCHANGED <<timestampFile, lastFetch, signal, now>>
    /\ UNCHANGED <<csv, currentDate, routeVars, normalizeVars, pipelineVars, lookupVars,
                   variant, cachedData, cachedAt, call, last>>

\* fetchStaticData writes the file with new metadata; checkForDataUpdates
\* reads it back, compares, and on an update calls clearCachedData, whose
\* write can fail and is then only logged
FetchStaticDataSucceeds(c, newMetadata, hasUpdates) ==
    /\ check[c].pc = "fetching"
    /\ snapshot' = Some(newMetadata)
    /\ check' = [check EXCEPT ![c] = Waiting]
    /\ Return(hasUpdates, "succeeded")
    /\ IF hasUpdates
       THEN \E written \in BOOLEAN : signal' = IF written THEN now ELSE signal
       ELSE signal' = signal
    /\ UNCHANGED <<timestampFile, lastFetch, now>>
    /\ UNCHANGED <<csv, currentDate, routeVars, normalizeVars, pipelineVars, lookupVars,
                   variant, cachedData, cachedAt, call, last>>

\* time passes: a millisecond, or a millisecond less than the interval
Advance(ms) ==
    /\ Advances(now) < MaxAdvances
    /\ now' = now + ms
    /\ UNCHANGED <<signal, schedulerVars>>
    /\ UNCHANGED <<csv, currentDate, routeVars, normalizeVars, pipelineVars, lookupVars,
                   variant, cachedData, cachedAt, call, last>>

NextScheduler ==
    \/ \E c \in Checkers : CheckForDataUpdates(c)
    \/ \E c \in Checkers, failure \in StaticFailures :
           FetchStaticDataFails(c, failure)
    \/ \E c \in Checkers, newMetadata \in Metadatas :
           FetchStaticDataSucceeds(c, newMetadata,
               isDataUpdated(check[c].currentMetadata, newMetadata))
    \/ \E ms \in {1, CHECK_INTERVAL - 1} : Advance(ms)

SpecScheduler == InitScheduler /\ [][NextScheduler]_vars

(***************************************************************************)
(* Repeated lookups and the city list                                      *)
(***************************************************************************)
\* s.replace(/suffix$/, '')
StripEnd(s, suffix) ==
    IF EndsWith(s, suffix) THEN SubSeq(s, 1, Len(s) - Len(suffix)) ELSE s

RECURSIVE StripEach(_, _)
StripEach(s, suffixes) ==
    IF suffixes = <<>> THEN s
    ELSE StripEach(StripEnd(s, Head(suffixes)), Tail(suffixes))

\* the province and the CMA/CA/ER designations, in the order of the replaces
Designations ==
    <<", Ontario", ", ON", " (Ontario)", " Ontario", " CMA", " CA", " (CMA)",
      " (CA)", " Census Metropolitan Area", " Census Agglomeration",
      " Economic Region">>

CityOf(geo) == Trim(StripEach(geo, Designations))

\* getAvailableCities on the list fetchRentalData resolved to: the distinct
\* names, which the function returns as an array in ascending order
getAvailableCities(data) == {CityOf(data[i].GEO) : i \in 1..Len(data)}

\* records that reach every approach of getAverage
RepeatRecords ==
    { Cached("Toronto, Ontario", "1", "$1,500", Some(16), "Highrise"),
      Cached("Hamilton, Ontario", "2", "$1,400", Some(16), "Highrise"),
      Cached("St. Catharines-Niagara, Ontario", "3+", "F", Some(16), "Townhouse") }

InitRepeat ==
    /\ cachedData \in {Some(data) : data \in SeqsUpTo(RepeatRecords, MaxRecs)}
    /\ variant = "v2"
    /\ cachedAt = 1
    /\ signal = 0
    /\ now = 1
    /\ call = <<>>
    /\ last = NoCall
    /\ csv = ServedCsvs[4]
    /\ currentDate = Today
    /\ RouteIdle
    /\ PipelineIdle
    /\ LookupIdle
    /\ NormalizeIdle
    /\ SchedulerIdle

\* the call ends, after another call
AnswerAgain(out) ==
    /\ earlier' = Some([matched |-> matched, result |-> ValueOf(result)])
    /\ matched' = out.matched
    /\ result' = Some(out.result)
    /\ cachedData' = Some(DataAfterRead(ValueOf(cachedData)))
    /\ UNCHANGED <<csv, currentDate, routeVars, otherVars, pipelineVars, variant, cachedAt, signal,
                   now, call, last, query, cities>>

\* the same getAverage call once more, the cache left as it was in between
GetAverageAgain ==
    /\ ~IsNull(query)
    /\ IsNull(earlier)
    /\ CacheHit(cachedData)
    /\ AnswerAgain(getAverageCall(ValueOf(cachedData),
                                  <<ValueOf(query).city, ValueOf(query).beds,
                                    ValueOf(query).category>>))

\* getAvailableCities(); its fetchRentalData call returns the cached list
GetAvailableCities ==
    /\ IsNull(cities)
    /\ CacheHit(cachedData)
    /\ cities' = Some(getAvailableCities(ValueOf(cachedData)))
    /\ cachedData' = Some(DataAfterRead(ValueOf(cachedData)))
    /\ UNCHANGED <<csv, currentDate, routeVars, otherVars, pipelineVars, variant, cachedAt, signal,
                   now, call, last, query, matched, result, earlier>>

NextRepeat ==
    \/ \E city \in QueryCities, beds \in QueryBeds, category \in QueryCategories :
           GetAverage(city, beds, category)
    \/ GetAverageAgain
    \/ GetAvailableCities

SpecRepeat == InitRepeat /\ [][NextRepeat]_vars

(***************************************************************************)
(* Properties of getAverage                                                *)
(***************************************************************************)
\* the numbers the values of CachedRecords stand for; the others are no number
NumberIn ==
    ("$1,500" :> 1500) @@ ("$1,700" :> 1700) @@ ("2000" :> 2000)
    @@ ("$1,400" :> 1400) @@ ("$900" :> 900) @@ ("$1,900" :> 1900)

RECURSIVE SumOfNumbersIn(_)
SumOfNumbersIn(records) ==
    IF records = <<>> THEN 0
    ELSE (IF Head(records).VALUE \in DOMAIN NumberIn
          THEN NumberIn[Head(records).VALUE] ELSE 0)
         + SumOfNumbersIn(Tail(records))

HowManyNumbersIn(records) ==
    Cardinality({i \in 1..Len(records) : records[i].VALUE \in DOMAIN NumberIn})

\* value is null when no value of records is a number, and else the mean of
\* those that are
IsMeanOf(value, records) ==
    IF HowManyNumbersIn(records) = 0 THEN IsNull(value)
    ELSE /\ ~IsNull(value)
         /\ ValueOf(value).sum * HowManyNumbersIn(records)
               = SumOfNumbersIn(records) * ValueOf(value).count

\* a getAverage call is made in this step
Asks == IsNull(query) /\ ~IsNull(query')

\* C8: over the matched records, values that are no number are left out; the
\* result is null when none is left and the mean of the rest otherwise, so
\* "$1,500" and "$1,700" give 1600; and the cached list keeps every record.
C8_MeanOfValidValues ==
    [][Asks /\ matched' # <<>>
          => /\ IsMeanOf(ValueOf(result').value, matched')
             /\ ([i \in 1..Len(matched') |-> matched'[i].VALUE]
                    = <<"$1,500", "$1,700">>
                 => ValueOf(result').value = Some(Quotient(3200, 2)))
             /\ cachedData' = cachedData]_vars

\* two records matched, one of them without a number: the result is the
\* other's value and both are still cached
C8_Witness ==
    /\ Len(matched) = 2
    /\ \E i \in 1..2 : matched[i].VALUE = ".."
    /\ \E i \in 1..2 : matched[i].VALUE = "$1,500"
    /\ ~IsNull(result)
    /\ ValueOf(result).value = Some(Quotient(1500, 1))
    /\ ValueOf(cachedData) = matched

\* no record's geography contains the name, whatever the case
NowhereIn(data, name) ==
    \A i \in 1..Len(data) : ~Includes(ToLowerCase(data[i].GEO), ToLowerCase(name))

\* C9: when no cached geography contains the city or one of its spelling
\* variations and the city has no metropolitan-area entry, or when the cached
\* list is empty, getAverage resolves to { value: null } whatever the
\* bedroom type.
C9_LookupMissIsNull ==
    ~IsNull(query) =>
        LET data == ValueOf(cachedData)
            city == ValueOf(query).city
            Miss == /\ NowhereIn(data, city)
                    /\ \A i \in 1..Len(cityVariations(city)) :
                          NowhereIn(data, cityVariations(city)[i])
                    /\ city \notin DOMAIN metroAreaMappings
        IN  (data = <<>> \/ Miss) => result = Some(NoValue)

\* Kenora was asked for against a list with records, none of them of Kenora
C9_Witness ==
    /\ ~IsNull(query)
    /\ ValueOf(query).city = "Kenora"
    /\ Len(ValueOf(cachedData)) = MaxRecs
    /\ result = Some(NoValue)

\* C10: when a category is asked for and some cached record has the city
\* (exactly), the bedroom type and the category, the average is taken over
\* the records of that category alone.
C10_AverageWithinCategory ==
    ~IsNull(query) =>
        LET q == ValueOf(query)
            OfCategory(item) ==
                /\ ToLowerCase(Trim(BeforeComma(item.GEO))) = ToLowerCase(q.city)
                /\ item.Bedrooms = q.beds
                /\ item.Category = q.category
        IN  q.category # "" /\ SelectSeq(ValueOf(cachedData), OfCategory) # <<>>
            => IsMeanOf(ValueOf(result).value,
                        SelectSeq(ValueOf(cachedData), OfCategory))

BucketNumber == ("0" :> 0) @@ ("1" :> 1) @@ ("2" :> 2) @@ ("3+" :> 3)

Distance(bucket, beds) ==
    IF BucketNumber[bucket] < BucketNumber[beds]
    THEN BucketNumber[beds] - BucketNumber[bucket]
    ELSE BucketNumber[bucket] - BucketNumber[beds]

\* the records whose geography contains the city
OfCity(data, city) ==
    SelectSeq(data, LAMBDA item : Includes(ToLowerCase(item.GEO), ToLowerCase(city)))

OfBucket(records, bucket) ==
    SelectSeq(records, LAMBDA item : item.Bedrooms = bucket)

\* approaches 1 to 4 find no record for the query
NoneOfFirstFour(data, q) ==
    /\ FirstThree(data, q.city, q.beds) = <<>>
    /\ FirstMatching(data, MetroAreasOf(q.city), q.beds) = <<>>

\* C12: when approaches 1 to 4 find no record and some cached geography
\* contains the city, the records averaged are all the records of that city
\* in one bedroom type, and no bedroom type of the city is nearer to the one
\* asked for.
C12_ClosestBedroomFallback ==
    ~IsNull(query) =>
        LET q == ValueOf(query)
            data == ValueOf(cachedData)
        IN  NoneOfFirstFour(data, q) /\ OfCity(data, q.city) # <<>>
            => /\ matched # <<>>
               /\ matched = OfBucket(OfCity(data, q.city), matched[1].Bedrooms)
               /\ \A i \in 1..Len(OfCity(data, q.city)) :
                      Distance(matched[1].Bedrooms, q.beds)
                         <= Distance(OfCity(data, q.city)[i].Bedrooms, q.beds)
               /\ IsMeanOf(ValueOf(result).value, matched)

\* the city has the groups "3+" and "2" only, "0" is asked for, and the "2"
\* group is the one averaged
C12_Witness ==
    /\ ~IsNull(query)
    /\ ValueOf(query).city = "Hamilton"
    /\ ValueOf(query).beds = "0"
    /\ Len(ValueOf(cachedData)) = 2
    /\ ValueOf(cachedData)[1].Bedrooms = "3+"
    /\ ValueOf(cachedData)[2].Bedrooms = "2"
    /\ matched = <<ValueOf(cachedData)[2]>>
    /\ ValueOf(result).value = Some(Quotient(1400, 1))

Buckets == {"0", "1", "2", "3+"}

Keywords ==
    {"bachelor", "studio", "one", "1 bedroom", "two", "2 bedroom", "three",
     "3 bedroom", "3+", "three or more"}

HasKeyword(s) == \E k \in Keywords : Includes(ToLowerCase(s), k)

HasDigit(s) == \E i \in 1..Len(s) : IsDigit(CharAt(s, i))

\* C14: normalizeBedrooms makes "" of ""; a label that is not empty and
\* contains a keyword or a digit becomes one of "0", "1", "2", "3+"; a label
\* with neither comes back as it is.
C14_LabelsBecomeBuckets ==
    ~IsNull(normalized) =>
        /\ label = "" => ValueOf(normalized) = ""
        /\ label # "" /\ (HasKeyword(label) \/ HasDigit(label))
              => ValueOf(normalized) \in Buckets
        /\ ~HasKeyword(label) /\ ~HasDigit(label) => ValueOf(normalized) = label

\* the timestamp file holds a time less than CHECK_INTERVAL before now
CheckedRecently ==
    /\ ~IsNull(timestampFile)
    /\ ValueOf(timestampFile).isNumber
    /\ now - ValueOf(timestampFile).value < CHECK_INTERVAL

\* the step is a checkForDataUpdates call up to its return or its await
IsInvocation ==
    /\ now' = now
    /\ \A c \in Checkers : check[c].pc = "fetching" => check'[c] = check[c]

StartsFetch == \E c \in Checkers : check[c].pc = "idle" /\ check'[c].pc = "fetching"

\* C15: a checkForDataUpdates call made less than CHECK_INTERVAL after the
\* time in the timestamp file returns false, starts no fetchStaticData and
\* leaves the timestamp, the snapshot and the invalidation signal alone; and
\* a fetchStaticData run starts at least CHECK_INTERVAL after the run before
\* it, if the timestamp write of that run succeeded.
C15_SchedulerGating ==
    [][/\ IsInvocation /\ CheckedRecently
          => /\ returned' = Some([value |-> FALSE, acquired |-> "skipped"])
             /\ UNCHANGED <<timestampFile, snapshot, signal, lastFetch, check>>
       /\ StartsFetch /\ ~IsNull(lastFetch) /\ ValueOf(lastFetch).stamped
          => now - ValueOf(lastFetch).at >= CHECK_INTERVAL]_vars

\* a call a millisecond short of the interval after a run was skipped
C15_Witness ==
    /\ ~IsNull(returned)
    /\ ValueOf(returned).acquired = "skipped"
    /\ ~IsNull(lastFetch)
    /\ ValueOf(lastFetch).stamped
    /\ now = ValueOf(lastFetch).at + CHECK_INTERVAL - 1
    /\ timestampFile = Some(Stamp(ValueOf(lastFetch).at))

\* no metadata before, or one of the four compared fields differs
MetadataChanged(oldMeta, newMeta) ==
    \/ IsNull(oldMeta)
    \/ ValueOf(oldMeta).recordCount # newMeta.recordCount
    \/ ValueOf(oldMeta).dataYear # newMeta.dataYear
    \/ ValueOf(oldMeta).uniqueBedroomTypes # newMeta.uniqueBedroomTypes
    \/ ValueOf(oldMeta).uniqueCities # newMeta.uniqueCities

\* a due check of c ends in this step, its fetchStaticData having succeeded
EndsAcquired(c) ==
    /\ check[c].pc = "fetching"
    /\ check'[c].pc = "idle"
    /\ ValueOf(returned').acquired = "succeeded"

\* C16 as stated: a due check whose fetchStaticData succeeded writes the
\* invalidation signal and returns true exactly when there was no metadata
\* before or record count, data year, bedroom list or city count differ;
\* otherwise it returns false and writes no signal.
C16_SignalExactlyOnUpdate ==
    [][\A c \in Checkers :
          EndsAcquired(c) =>
              IF MetadataChanged(check[c].currentMetadata, ValueOf(snapshot'))
              THEN ValueOf(returned').value /\ signal' = now
              ELSE ~ValueOf(returned').value /\ signal' = signal]_vars

\* C16, amended: such a check returns true exactly when there was no
\* metadata before or one of the four fields differs; it then calls
\* clearCachedData, which writes the signal unless the write fails; when it
\* returns false the signal is left alone.
C16_ReturnsTrueExactlyOnUpdate ==
    [][\A c \in Checkers :
          EndsAcquired(c) =>
              IF MetadataChanged(check[c].currentMetadata, ValueOf(snapshot'))
              THEN ValueOf(returned').value /\ signal' \in {now, signal}
              ELSE ~ValueOf(returned').value /\ signal' = signal]_vars

\* an update was found after the interval had passed: the bedroom list came
\* in another order, true was returned and the signal written
C16_Witness ==
    /\ returned = Some([value |-> TRUE, acquired |-> "succeeded"])
    /\ signal = now
    /\ now > CHECK_INTERVAL
    /\ snapshot = Some(Metadata(12, Some(2024), <<"1", "0">>, 3, <<"Apartment">>))

\* the records whose geography up to the first comma is the city, whatever
\* the case, and whose bedroom type is the one asked for
IsTheCity(item, q) ==
    /\ ToLowerCase(Trim(BeforeComma(item.GEO))) = ToLowerCase(q.city)
    /\ item.Bedrooms = q.beds

\* the matches of the first approach that has any, in the order exact city,
\* substring, spelling variations, metropolitan areas, closest bedroom type
FirstApproachWithMatches(data, q) ==
    IF ExactMatches(data, q.city, q.beds) # <<>>
    THEN ExactMatches(data, q.city, q.beds)
    ELSE IF PartialMatches(data, q.city, q.beds) # <<>>
    THEN PartialMatches(data, q.city, q.beds)
    ELSE IF FirstMatching(data, cityVariations(q.city), q.beds) # <<>>
    THEN FirstMatching(data, cityVariations(q.city), q.beds)
    ELSE IF FirstMatching(data, MetroAreasOf(q.city), q.beds) # <<>>
    THEN FirstMatching(data, MetroAreasOf(q.city), q.beds)
    ELSE IF OfCity(data, q.city) # <<>>
    THEN ClosestGroup(OfCity(data, q.city), q.beds)
    ELSE <<>>

\* C17: the records averaged are the matches of the first approach that has
\* any; when some record is the city exactly, with the bedroom type asked
\* for, the records averaged are those records and no other.
C17_FirstApproachWins ==
    ~IsNull(query) =>
        LET q == ValueOf(query)
            data == ValueOf(cachedData)
        IN  /\ matched = FirstApproachWithMatches(data, q)
            /\ IsMeanOf(ValueOf(result).value, matched)
            /\ (\E i \in 1..Len(data) : IsTheCity(data[i], q))
                  => matched = SelectSeq(data, LAMBDA item : IsTheCity(item, q))

\* the cache holds the city and a geography that only contains its name, in
\* the same bedroom type, and the city's record alone is averaged
C17_Witness ==
    /\ ~IsNull(query)
    /\ ValueOf(query).city = "Toronto"
    /\ ValueOf(query).beds = "1"
    /\ Len(ValueOf(cachedData)) = 2
    /\ ValueOf(cachedData)[1].GEO = "Greater Toronto Area, Ontario"
    /\ ValueOf(cachedData)[2].GEO = "Toronto, Ontario"
    /\ matched = <<ValueOf(cachedData)[2]>>
    /\ ValueOf(result).value = Some(Quotient(1500, 1))

\* the records that are a name exactly, for the first name that has any
RECURSIVE FirstExactly(_, _, _)
FirstExactly(data, names, beds) ==
    IF names = <<>> THEN <<>>
    ELSE IF ExactMatches(data, Head(names), beds) # <<>>
    THEN ExactMatches(data, Head(names), beds)
    ELSE FirstExactly(data, Tail(names), beds)

\* C18: when neither the city nor a geography containing it matches, the
\* spelling variations are tried in the order they were generated, a record
\* matching a variation only when its geography up to the first comma is the
\* variation, whatever the case, and its bedroom type the one asked for; the
\* first variation with a match gives the records averaged, and without one
\* the metropolitan areas and the closest bedroom type are tried.
C18_VariationsMatchExactly ==
    ~IsNull(query) =>
        LET q == ValueOf(query)
            data == ValueOf(cachedData)
        IN  /\ ExactMatches(data, q.city, q.beds) = <<>>
            /\ PartialMatches(data, q.city, q.beds) = <<>>
            => matched =
                 IF FirstExactly(data, cityVariations(q.city), q.beds) # <<>>
                 THEN FirstExactly(data, cityVariations(q.city), q.beds)
                 ELSE IF FirstMatching(data, MetroAreasOf(q.city), q.beds) # <<>>
                 THEN FirstMatching(data, MetroAreasOf(q.city), q.beds)
                 ELSE IF OfCity(data, q.city) # <<>>
                 THEN ClosestGroup(OfCity(data, q.city), q.beds)
                 ELSE <<>>

\* the positions of the city's records whose bedroom type is as near to the
\* one asked for as any
Nearest(records, beds) ==
    {i \in 1..Len(records) :
        \A j \in 1..Len(records) :
            Distance(records[i].Bedrooms, beds) <= Distance(records[j].Bedrooms, beds)}

\* C19: when the closest bedroom type is looked for and two types of the
\* city's records are equally near, the records averaged are those of the
\* type that comes first among the city's records in the order of the list.
C19_TieGoesToFirstEncountered ==
    ~IsNull(query) =>
        LET q == ValueOf(query)
            data == ValueOf(cachedData)
            records == OfCity(data, q.city)
        IN  NoneOfFirstFour(data, q) /\ records # <<>>
            => /\ matched # <<>>
               /\ \A i \in Nearest(records, q.beds) :
                      (\A j \in Nearest(records, q.beds) : i <= j)
                         => matched = OfBucket(records, records[i].Bedrooms)

\* sum / count rounded to the nearest integer, halves upwards
NearestInteger(sum, count) ==
    CHOOSE n \in 0..sum :
        /\ 2 * count * n <= 2 * sum + count
        /\ 2 * sum + count < 2 * count * (n + 1)

RECURSIVE SumOfAges(_)
SumOfAges(records) ==
    IF records = <<>> THEN 0
    ELSE (IF IsNull(Head(records).DataAge) THEN 0 ELSE ValueOf(Head(records).DataAge))
         + SumOfAges(Tail(records))

HowManyAges(records) ==
    Cardinality({i \in 1..Len(records) : ~IsNull(records[i].DataAge)})

\* C20: the dataAge of a lookup that matched records is the mean of the
\* DataAge of the matched records that have one, rounded to the nearest
\* integer, and undefined when none has one, for one matched record and for
\* several.
C20_DataAgeIsRoundedMean ==
    ~IsNull(query) /\ matched # <<>> =>
        ValueOf(result).dataAge =
            IF HowManyAges(matched) = 0 THEN Null
            ELSE Some(NearestInteger(SumOfAges(matched), HowManyAges(matched)))

\* C21: a fetchRentalData call that resolves to the empty list leaves
\* cachedData as it was, null on an empty cache, so that the next call
\* acquires again; cachedData is never a list without records.
C21_EmptyResultIsTemporary ==
    [][/\ \A c \in Callers :
             Settles(c) /\ last'.ret = <<>> => cachedData' = cachedData
       /\ ~IsNull(cachedData') => Len(ValueOf(cachedData')) > 0]_vars

\* C22: processRentalData of the cmhc-data route keeps what the recency
\* selection of fetchRentalData and fetchStaticData keeps of its processed
\* records: all of them when the records of the latest year are fewer than
\* 10 and the processed records at least 10, and else those of the latest
\* year.
C22_RouteKeepsFallback ==
    ran = "processRentalData" =>
        finalData = IF Len(recentRecords) < 10 /\ Len(processedData) >= 10
                    THEN processedData
                    ELSE recentRecords


(***************************************************************************)
(* The cmhc-data route                                                     *)
(***************************************************************************)
\* CACHE_DURATION, in milliseconds
CACHE_DURATION == 24 * 60 * 60 * 1000

NumRequests == 2

MaxExpiries == 1

\* the GET requests the route receives
Requests == 1..NumRequests

NotStarted == [pc |-> "idle", now |-> 0, began |-> 0, response |-> Null]

\* a request past the cache test, awaiting the source; now is its
\* const now = Date.now(), began the updates detected before it started
Acquiring(time, seen) ==
    [pc |-> "fetching", now |-> time, began |-> seen, response |-> Null]

\* NextResponse.json(data, ...) or NextResponse.json({ error }, { status })
Responded(status, data) ==
    [pc |-> "done", now |-> 0, began |-> 0,
     response |-> Some([status |-> status, data |-> data])]

\* processRentalData(csvData) of a request: told apart by when the request
\* started
ProcessedBy(req) == [acquired |-> req.now, began |-> req.began]

NoCheck == [pc |-> "none", wasUpdated |-> FALSE]

Pending == [pc |-> "pending", wasUpdated |-> FALSE]

\* the promise of checkForDataUpdates() resolved; it never rejects, for the
\* function catches what it throws
Settled(wasUpdated) == [pc |-> "settled", wasUpdated |-> wasUpdated]

ThenRan == [pc |-> "finally", wasUpdated |-> FALSE]

Finished == [pc |-> "finished", wasUpdated |-> FALSE]

ShouldCheck_Always(flag) == TRUE

\* if (!isCheckingForUpdates)
ShouldCheck(flag) == ~flag

AfterFinally_Kept(flag) == flag

\* .finally(() => { isCheckingForUpdates = false; })
AfterFinally(flag) == FALSE

\* cachedData && (now - cacheTime < CACHE_DURATION)
CacheIsValid(data, time, current) ==
    ~IsNull(data) /\ current - time < CACHE_DURATION

outsideRoute == <<csv, currentDate, otherVars, pipelineVars, lookupVars,
                  variant, cachedData, cachedAt, signal, call, last>>

InitRoute ==
    /\ routeCachedData = Null
    /\ cacheTime = 0
    /\ isCheckingForUpdates = FALSE
    /\ request = [r \in Requests |-> NotStarted]
    /\ updateCheck = [r \in Requests |-> NoCheck]
    /\ detected = 0
    /\ now = 1
    /\ variant = "v2"
    /\ cachedData = Null
    /\ cachedAt = 0
    /\ signal = 0
    /\ call = <<>>
    /\ last = NoCall
    /\ csv = ServedCsvs[4]
    /\ currentDate = Today
    /\ PipelineIdle
    /\ LookupIdle
    /\ NormalizeIdle
    /\ SchedulerIdle

\* GET(request) up to its first await or return: the update check is
\* started unless one is flagged, then the cache is tested
Get(r) ==
    /\ request[r].pc = "idle"
    /\ IF ShouldCheck(isCheckingForUpdates)
       THEN /\ isCheckingForUpdates' = TRUE
            /\ updateCheck' = [updateCheck EXCEPT ![r] = Pending]
       ELSE UNCHANGED <<isCheckingForUpdates, updateCheck>>
    /\ request' = [request EXCEPT ![r] =
           IF CacheIsValid(routeCachedData, cacheTime, now)
           THEN Responded(200, routeCachedData)
           ELSE Acquiring(now, detected)]
    /\ UNCHANGED <<routeCachedData, cacheTime, detected, now>>
    /\ UNCHANGED outsideRoute

\* a response that is not ok, an invalid WDS answer, no CSV in the archive,
\* CSV data under 100 characters, or an exception: an error response
AcquisitionFails(r) ==
    /\ request[r].pc = "fetching"
    /\ request' = [request EXCEPT ![r] = Responded(500, Null)]
    /\ UNCHANGED <<routeCachedData, cacheTime, isCheckingForUpdates,
                   updateCheck, detected, now>>
    /\ UNCHANGED outsideRoute

\* the CSV arrived: cachedData = processedData; cacheTime = now;
AcquisitionSucceeds(r) ==
    /\ request[r].pc = "fetching"
    /\ routeCachedData' = Some(ProcessedBy(request[r]))
    /\ cacheTime' = request[r].now
    /\ request' = [request EXCEPT ![r] =
           Responded(200, Some(ProcessedBy(request[r])))]
    /\ UNCHANGED <<isCheckingForUpdates, updateCheck, detected, now>>
    /\ UNCHANGED outsideRoute

\* the checkForDataUpdates call of request r resolves
CheckSettles(r, wasUpdated) ==
    /\ updateCheck[r].pc = "pending"
    /\ updateCheck' = [updateCheck EXCEPT ![r] = Settled(wasUpdated)]
    /\ UNCHANGED <<routeCachedData, cacheTime, isCheckingForUpdates, request,
                   detected, now>>
    /\ UNCHANGED outsideRoute

\* .then(wasUpdated => { if (wasUpdated) { cachedData = null; cacheTime = 0 } })
ThenCallback(r) ==
    /\ updateCheck[r].pc = "settled"
    /\ updateCheck' = [updateCheck EXCEPT ![r] = ThenRan]
    /\ IF updateCheck[r].wasUpdated
       THEN /\ routeCachedData' = Null
            /\ cacheTime' = 0
            /\ detected' = detected + 1
       ELSE UNCHANGED <<routeCachedData, cacheTime, detected>>
    /\ UNCHANGED <<isCheckingForUpdates, request, now>>
    /\ UNCHANGED outsideRoute

\* .finally(() => { isCheckingForUpdates = false; })
FinallyCallback(r) ==
    /\ updateCheck[r].pc = "finally"
    /\ updateCheck' = [updateCheck EXCEPT ![r] = Finished]
    /\ isCheckingForUpdates' = AfterFinally(isCheckingForUpdates)
    /\ UNCHANGED <<routeCachedData, cacheTime, request, detected, now>>
    /\ UNCHANGED outsideRoute

\* time passes: as long as the cache of the route lasts
Expire ==
    /\ now < MaxExpiries * CACHE_DURATION
    /\ now' = now + CACHE_DURATION
    /\ UNCHANGED routeVars
    /\ UNCHANGED outsideRoute

NextRoute ==
    \/ \E r \in Requests : Get(r)
    \/ \E r \in Requests : AcquisitionFails(r)
    \/ \E r \in Requests : AcquisitionSucceeds(r)
    \/ \E r \in Requests, wasUpdated \in BOOLEAN : CheckSettles(r, wasUpdated)
    \/ \E r \in Requests : ThenCallback(r)
    \/ \E r \in Requests : FinallyCallback(r)
    \/ Expire

SpecRoute == InitRoute /\ [][NextRoute]_vars

\* the callbacks of a settled promise are run: the microtask queue is
\* drained before the event loop goes on
SpecRouteCallbacks ==
    /\ InitRoute
    /\ [][NextRoute]_vars
    /\ \A r \in Requests : WF_vars(ThenCallback(r))
    /\ \A r \in Requests : WF_vars(FinallyCallback(r))

\* the checkForDataUpdates calls the route started that have not settled
InFlight == {r \in Requests : updateCheck[r].pc = "pending"}

\* C23: whatever the interleaving of the GET requests, at most one
\* checkForDataUpdates call started by the route is in flight.
C23_OneCheckInFlight == Cardinality(InFlight) <= 1

\* a request went past the flag while the check of another was in flight
C23_Witness ==
    \E r, other \in Requests :
        /\ updateCheck[r].pc = "pending"
        /\ request[other].pc # "idle"
        /\ updateCheck[other].pc = "none"

\* C27: once the checkForDataUpdates call the route started has settled,
\* isCheckingForUpdates is eventually false again.
C27_FlagIsReset ==
    \A r \in Requests :
        (updateCheck[r].pc = "settled") ~> ~isCheckingForUpdates

\* the callbacks of a check ran and the flag is down
C27_Witness ==
    \E r \in Requests :
        updateCheck[r].pc = "finished" /\ ~isCheckingForUpdates

\* C28: the cache of the route never holds data whose acquisition began
\* before an update the route has been told of.
C28_NoDataFromBeforeTheUpdate ==
    ~IsNull(routeCachedData) => ValueOf(routeCachedData).began >= detected


\* C24: whatever the interleaving of the fetchRentalData calls, cachedData
\* changes only when a call ends by storing, and then to the whole list that
\* call returns, the output of the data it was served: cachedData is null or
\* the output of one finished acquisition, and calls served the same data
\* leave that one output. A call that fails leaves cachedData as it was.
C24_CacheIsOneWholeOutput ==
    [][/\ cachedData' # cachedData =>
             \E c \in Callers : Settles(c) /\ last'.path = "stored"
       /\ \A c \in Callers :
            /\ Settles(c) /\ last'.path = "failed" => cachedData' = cachedData
            /\ Settles(c) /\ last'.path = "stored" =>
                  /\ cachedData' = Some(last'.ret)
                  /\ last'.ret = TryBlock(variant, last'.outcome).value]_vars

\* two calls acquired at once; one stored its list, then the other failed
C24_Witness ==
    /\ last.path = "failed"
    /\ ~IsNull(cachedData)
    /\ ValueOf(cachedData) # <<>>
    /\ \A c \in Callers : call[c] = "done"

\* a due check of c ends in this step, its fetchStaticData having failed
EndsFailed(c) ==
    /\ check[c].pc = "fetching"
    /\ check'[c].pc = "idle"
    /\ ValueOf(returned').acquired = "failed"

\* C25: when fetchStaticData fails -- a request aborted by its timeout, a
\* response that is not ok, an invalid WDS status, no CSV in the archive, no
\* parsed rows -- the snapshot file is left as it was and checkForDataUpdates
\* returns false without writing the invalidation signal.
C25_FailedFetchChangesNothing ==
    [][\A c \in Checkers :
          EndsFailed(c) => /\ ~ValueOf(returned').value
                           /\ snapshot' = snapshot
                           /\ signal' = signal]_vars

\* a run failed and the snapshot is still there
C25_Witness ==
    /\ ~IsNull(returned)
    /\ ValueOf(returned).acquired = "failed"
    /\ ~ValueOf(returned).value
    /\ ~IsNull(snapshot)
    /\ signal = 0

\* the last fetchStaticData run was started less than CHECK_INTERVAL ago and
\* a failed run was the last to return
FailedWithinInterval ==
    /\ ~IsNull(lastFetch)
    /\ now - ValueOf(lastFetch).at < CHECK_INTERVAL
    /\ ~IsNull(returned)
    /\ ValueOf(returned).acquired = "failed"

\* C26 as stated: every due check writes the time to the timestamp file
\* before it starts fetchStaticData, a failing fetch leaves that time in
\* place, and after it every invocation made less than CHECK_INTERVAL after
\* the due check is skipped.
C26_TimestampOnEveryDueCheck ==
    [][/\ StartsFetch => timestampFile' = Some(Stamp(now))
       /\ \A c \in Checkers : EndsFailed(c) => timestampFile' = timestampFile
       /\ IsInvocation /\ FailedWithinInterval
          => /\ returned' = Some([value |-> FALSE, acquired |-> "skipped"])
             /\ ~StartsFetch]_vars

\* C26, amended: a due check writes the time to the timestamp file before it
\* starts fetchStaticData unless the write fails, which is logged and
\* ignored; a failing fetch leaves the file alone; and after a due check
\* whose write succeeded and whose fetch failed, every invocation made less
\* than CHECK_INTERVAL after it is skipped.
C26_TimestampUnlessWriteFails ==
    [][/\ StartsFetch =>
             timestampFile' = IF ValueOf(lastFetch').stamped
                              THEN Some(Stamp(now))
                              ELSE timestampFile
       /\ \A c \in Checkers : EndsFailed(c) => timestampFile' = timestampFile
       /\ IsInvocation /\ FailedWithinInterval /\ ValueOf(lastFetch).stamped
          => /\ returned' = Some([value |-> FALSE, acquired |-> "skipped"])
             /\ ~StartsFetch]_vars

\* a millisecond short of the interval after a due check whose fetch
\* failed, its time still in the timestamp file
C26_Witness ==
    /\ FailedWithinInterval
    /\ ValueOf(lastFetch).stamped
    /\ timestampFile = Some(Stamp(ValueOf(lastFetch).at))
    /\ now = ValueOf(lastFetch).at + CHECK_INTERVAL - 1

\* C30: the snapshot file never holds a dataset without records.
C30_NoZeroRecordSnapshot ==
    ~IsNull(snapshot) => ValueOf(snapshot).recordCount > 0

\* C29: a getAverage call resolves to what the call with the city in lower
\* case resolves to on the same cached list.
C29_CityCaseInsensitive ==
    ~IsNull(query) =>
        ValueOf(result)
            = getAverageCall(ValueOf(cachedData),
                             <<ToLowerCase(ValueOf(query).city),
                               ValueOf(query).beds,
                               ValueOf(query).category>>).result
====
